---- MODULE Spec2Model ----
(***************************************************************************)
(* Claude-Code-Usage-Monitor: the terminal monitor (src/claude_monitor.py) *)
(* and the usage_analyzer package (MonitorService, NotificationManager).   *)
(*                                                                         *)
(* Times are absolute seconds (UTC).  A Python float is modelled as the    *)
(* exact rational it approximates: a record [n, d] in lowest terms with    *)
(* d > 0.  An optional value (None / absent dict key) is the empty         *)
(* sequence, a present value v is <<v>>.                                   *)
(***************************************************************************)
EXTENDS Integers, Sequences, FiniteSets, TLC

VARIABLES
    prog,                 \* which program runs: "terminal" | "service" | "web" | "core"
    now,                  \* the wall clock, seconds
    notification_states,  \* claude_monitor.notification_states (module global)
    mgr_states,           \* NotificationManager._states
    last_call,            \* the last debounce call: arguments, state before, return value
    args_plan,            \* terminal: args.plan
    token_limit,          \* terminal: main()'s token_limit, handed to the run loop
    usage_data,           \* what a fetch of the usage data returns at present
    cycle,                \* the last evaluation cycle: what it fetched and what it produced
    conc,                 \* threads inside should_show_notification: where each one is
    limiter,              \* the RateLimitMiddleware object and the requests it has seen
    cache,                \* the IntelligentCache object
    bus,                  \* the EventBus object
    manager,              \* the ConnectionManager object
    usage_cache,          \* the UsageDataCache object
    auth,                 \* the WebSocketAuth object
    source                \* the CachedDataSource object

\* The variables of the web layer and of the core components.
components == <<limiter, cache, bus, manager, usage_cache, auth, source>>

\* The variables of the monitor programs other than the clock.
monitor == <<prog, notification_states, mgr_states, last_call,
             args_plan, token_limit, usage_data, cycle, conc>>

vars == <<prog, now, notification_states, mgr_states, last_call,
          args_plan, token_limit, usage_data, cycle, conc,
          limiter, cache, bus, manager, usage_cache, auth, source>>

----------------------------------------------------------------------------
(* Optional values and exact rationals                                     *)

None == <<>>
Some(v) == <<v>>
IsNone(o) == o = <<>>
Val(o) == o[1]

Abs(x) == IF x < 0 THEN 0 - x ELSE x

RECURSIVE GCD(_, _)
GCD(a, b) == IF b = 0 THEN a ELSE GCD(b, a % b)

\* n/d in lowest terms, d > 0
Rat(n, d) ==
    LET g == GCD(Abs(n), Abs(d))
        s == IF d < 0 THEN 0 - 1 ELSE 1
    IN  [n |-> s * (n \div g), d |-> s * (d \div g)]

RInt(i) == [n |-> i, d |-> 1]
RAdd(a, b) == Rat(a.n * b.d + b.n * a.d, a.d * b.d)
RSub(a, b) == Rat(a.n * b.d - b.n * a.d, a.d * b.d)
RMul(a, b) ==
    LET x == Rat(a.n, b.d)
        y == Rat(b.n, a.d)
    IN  [n |-> x.n * y.n, d |-> x.d * y.d]
RDiv(a, b) == RMul(a, Rat(b.d, b.n))
RLt(a, b) == RSub(a, b).n < 0
RLe(a, b) == RSub(a, b).n <= 0
RGt(a, b) == RLt(b, a)
RZero == RInt(0)

----------------------------------------------------------------------------
(* Notification debounce                                                   *)

NotificationKinds == {"switch_to_custom", "exceed_max_limit", "tokens_will_run_out"}

\* claude_monitor.NOTIFICATION_MIN_DURATION, seconds
NOTIFICATION_MIN_DURATION == 5

\* NotificationManager.NOTIFICATION_MIN_DURATION, seconds
MGR_NOTIFICATION_MIN_DURATION == 5

CleanState == [triggered |-> FALSE, timestamp |-> None]

CleanStates == [k \in NotificationKinds |-> CleanState]

\* The debounce with the minimum duration compared the wrong way round.
update_notification_state_strict(states, notification_type, condition_met, current_time) ==
    LET state == states[notification_type] IN
    IF condition_met
    THEN [ret |-> TRUE,
          states |-> IF ~state.triggered
                     THEN [states EXCEPT ![notification_type] =
                              [triggered |-> TRUE, timestamp |-> Some(current_time)]]
                     ELSE states]
    ELSE IF state.triggered
         THEN IF current_time - Val(state.timestamp) > NOTIFICATION_MIN_DURATION
              THEN [ret |-> FALSE,
                    states |-> [states EXCEPT ![notification_type] = CleanState]]
              ELSE [ret |-> TRUE, states |-> states]
         ELSE [ret |-> FALSE, states |-> states]

\* The debounce without a minimum duration: a false condition clears at once.
update_notification_state_no_hold(states, notification_type, condition_met, current_time) ==
    LET state == states[notification_type] IN
    IF condition_met
    THEN [ret |-> TRUE,
          states |-> IF ~state.triggered
                     THEN [states EXCEPT ![notification_type] =
                              [triggered |-> TRUE, timestamp |-> Some(current_time)]]
                     ELSE states]
    ELSE [ret |-> FALSE,
          states |-> IF state.triggered
                     THEN [states EXCEPT ![notification_type] = CleanState]
                     ELSE states]

\* The debounce clearing the whole dictionary when one kind's time is up.
update_notification_state_reset_all(states, notification_type, condition_met, current_time) ==
    LET state == states[notification_type] IN
    IF condition_met
    THEN [ret |-> TRUE,
          states |-> IF ~state.triggered
                     THEN [states EXCEPT ![notification_type] =
                              [triggered |-> TRUE, timestamp |-> Some(current_time)]]
                     ELSE states]
    ELSE IF state.triggered
         THEN IF current_time - Val(state.timestamp) >= NOTIFICATION_MIN_DURATION
              THEN [ret |-> FALSE, states |-> CleanStates]
              ELSE [ret |-> TRUE, states |-> states]
         ELSE [ret |-> FALSE, states |-> states]

\* claude_monitor.update_notification_state: the new dictionary and the return value
update_notification_state(states, notification_type, condition_met, current_time) ==
    LET state == states[notification_type] IN
    IF condition_met
    THEN [ret |-> TRUE,
          states |-> IF ~state.triggered
                     THEN [states EXCEPT ![notification_type] =
                              [triggered |-> TRUE, timestamp |-> Some(current_time)]]
                     ELSE states]
    ELSE IF state.triggered
         THEN LET elapsed == current_time - Val(state.timestamp) IN
              IF elapsed >= NOTIFICATION_MIN_DURATION
              THEN [ret |-> FALSE,
                    states |-> [states EXCEPT ![notification_type] = CleanState]]
              ELSE [ret |-> TRUE, states |-> states]
         ELSE [ret |-> FALSE, states |-> states]

\* The manager's debounce refreshing the timestamp on every true call.
should_show_notification_refresh(states, notification_type, condition_met, current_time) ==
    IF notification_type \notin DOMAIN states
    THEN [ret |-> FALSE, states |-> states]
    ELSE LET state == states[notification_type] IN
         IF condition_met
         THEN [ret |-> TRUE,
               states |-> [states EXCEPT ![notification_type] =
                              [triggered |-> TRUE, timestamp |-> Some(current_time)]]]
         ELSE IF state.triggered
              THEN IF current_time - Val(state.timestamp) >= MGR_NOTIFICATION_MIN_DURATION
                   THEN [ret |-> FALSE,
                         states |-> [states EXCEPT ![notification_type] = CleanState]]
                   ELSE [ret |-> TRUE, states |-> states]
              ELSE [ret |-> FALSE, states |-> states]

\* NotificationManager.should_show_notification
should_show_notification(states, notification_type, condition_met, current_time) ==
    IF notification_type \notin DOMAIN states
    THEN [ret |-> FALSE, states |-> states]
    ELSE LET state == states[notification_type] IN
         IF condition_met
         THEN [ret |-> TRUE,
               states |-> IF ~state.triggered
                          THEN [states EXCEPT ![notification_type] =
                                   [triggered |-> TRUE, timestamp |-> Some(current_time)]]
                          ELSE states]
         ELSE IF state.triggered
              THEN LET elapsed == current_time - Val(state.timestamp) IN
                   IF elapsed >= MGR_NOTIFICATION_MIN_DURATION
                   THEN [ret |-> FALSE,
                         states |-> [states EXCEPT ![notification_type] = CleanState]]
                   ELSE [ret |-> TRUE, states |-> states]
              ELSE [ret |-> FALSE, states |-> states]

\* NotificationManager.reset_notification
reset_notification(states, notification_type) ==
    IF notification_type \in DOMAIN states
    THEN [states EXCEPT ![notification_type] = CleanState]
    ELSE states

NoCall == [op |-> "none", kind |-> "", cond |-> FALSE, time |-> 0,
           pre |-> CleanState, post |-> CleanState, ret |-> FALSE]

\* The record of one debounce call on a known kind.
CallRecord(kind, cond, time, before, r) ==
    [op |-> "call", kind |-> kind, cond |-> cond, time |-> time,
     pre |-> before[kind], post |-> r.states[kind], ret |-> r.ret]

\* A thread calling should_show_notification: the statement it is at, its
\* arguments, and how the call ended.
Threads == {1, 2}

IdleThread == [pc |-> "idle", kind |-> "", cond |-> FALSE, ret |-> FALSE, exc |-> "none"]

\* No thread is inside a call; base is _states as the calls in progress found it.
NoConc == [t |-> [i \in Threads |-> IdleThread], base |-> CleanStates]

----------------------------------------------------------------------------
(* Usage blocks and their timestamps                                       *)
(*                                                                         *)
(* A timestamp string is [fmt, t, off]: "aware" (an ISO string with an     *)
(* offset, "Z" being offset 0: local time t, offset off), "naive" (no      *)
(* offset) or "malformed" (datetime.fromisoformat rejects it).  A block is *)
(* the dict the code reads with .get: startTime, endTime and actualEndTime *)
(* are optional timestamp strings.                                         *)

Aware(t, off) == [fmt |-> "aware", t |-> t, off |-> off]
Utc(t) == Aware(t, 0)
Naive(t) == [fmt |-> "naive", t |-> t, off |-> 0]
Malformed == [fmt |-> "malformed", t |-> 0, off |-> 0]

Block(start, end, actualEnd, tokens, active, gap) ==
    [startTime |-> start, endTime |-> end, actualEndTime |-> actualEnd,
     totalTokens |-> tokens, isActive |-> active, isGap |-> gap]

NoExc == "none"

Max(a, b) == IF a >= b THEN a ELSE b
Min(a, b) == IF a <= b THEN a ELSE b

\* claude_monitor: datetime.fromisoformat(s.replace("Z", "+00:00")), then
\* UTC_TZ.localize for a naive value and astimezone(UTC_TZ) for an aware one.
ParseTerminal(ts) ==
    CASE ts.fmt = "malformed" -> [exc |-> "ValueError", t |-> 0]
      [] ts.fmt = "naive" -> [exc |-> NoExc, t |-> ts.t]
      [] OTHER -> [exc |-> NoExc, t |-> ts.t - ts.off]

\* MonitorService: the same parse, but a naive value goes to
\* timezone.utc.localize, which datetime.timezone does not have.
ParseService(ts) ==
    CASE ts.fmt = "malformed" -> [exc |-> "ValueError", t |-> 0]
      [] ts.fmt = "naive" -> [exc |-> "AttributeError", t |-> 0]
      [] OTHER -> [exc |-> NoExc, t |-> ts.t - ts.off]

\* timedelta(hours=1), seconds
HOUR == 3600

\* timedelta(hours=5), seconds
FIVE_HOURS == 18000

----------------------------------------------------------------------------
(* Burn rate: claude_monitor.calculate_hourly_burn_rate                    *)

\* The loop's iteration with the session start not clamped to the window.
TokensInHour_unclamped(block, current_time) ==
    LET one_hour_ago == current_time - HOUR
        zero == [exc |-> NoExc, tokens |-> RZero]
    IN
    IF IsNone(block.startTime) THEN zero
    ELSE
    LET ps == ParseTerminal(Val(block.startTime)) IN
    IF ps.exc # NoExc THEN [exc |-> ps.exc, tokens |-> RZero]
    ELSE IF block.isGap THEN zero
    ELSE
    LET pe == IF block.isActive \/ IsNone(block.actualEndTime)
              THEN [exc |-> NoExc, t |-> current_time]
              ELSE ParseTerminal(Val(block.actualEndTime))
    IN
    IF pe.exc # NoExc THEN [exc |-> pe.exc, tokens |-> RZero]
    ELSE IF pe.t < one_hour_ago THEN zero
    ELSE
    LET session_end_in_hour == Min(pe.t, current_time) IN
    IF session_end_in_hour <= ps.t THEN zero
    ELSE
    LET total_session_duration == Rat(pe.t - ps.t, 60)
        hour_duration == Rat(session_end_in_hour - ps.t, 60)
    IN
    IF RGt(total_session_duration, RZero)
    THEN [exc |-> NoExc,
          tokens |-> RMul(RInt(block.totalTokens),
                          RDiv(hour_duration, total_session_duration))]
    ELSE zero

\* One iteration of the loop over blocks: the tokens the block adds to
\* total_tokens, or the exception the iteration raises.
TokensInHour(block, current_time) ==
    LET one_hour_ago == current_time - HOUR
        zero == [exc |-> NoExc, tokens |-> RZero]
    IN
    IF IsNone(block.startTime) THEN zero
    ELSE
    LET ps == ParseTerminal(Val(block.startTime)) IN
    IF ps.exc # NoExc THEN [exc |-> ps.exc, tokens |-> RZero]
    ELSE IF block.isGap THEN zero
    ELSE
    LET pe == IF block.isActive \/ IsNone(block.actualEndTime)
              THEN [exc |-> NoExc, t |-> current_time]
              ELSE ParseTerminal(Val(block.actualEndTime))
    IN
    IF pe.exc # NoExc THEN [exc |-> pe.exc, tokens |-> RZero]
    ELSE IF pe.t < one_hour_ago THEN zero
    ELSE
    LET start_time == ps.t
        session_actual_end == pe.t
        session_start_in_hour == Max(start_time, one_hour_ago)
        session_end_in_hour == Min(session_actual_end, current_time)
    IN
    IF session_end_in_hour <= session_start_in_hour THEN zero
    ELSE
    LET total_session_duration == Rat(session_actual_end - start_time, 60)
        hour_duration == Rat(session_end_in_hour - session_start_in_hour, 60)
    IN
    IF RGt(total_session_duration, RZero)
    THEN [exc |-> NoExc,
          tokens |-> RMul(RInt(block.totalTokens),
                          RDiv(hour_duration, total_session_duration))]
    ELSE zero

\* The loop: total_tokens after blocks i..Len(blocks), stopping at a raise.
RECURSIVE SumTokensInHour(_, _, _, _)
SumTokensInHour(blocks, i, current_time, total_tokens) ==
    IF i > Len(blocks) THEN [exc |-> NoExc, tokens |-> total_tokens]
    ELSE LET r == TokensInHour(blocks[i], current_time) IN
         IF r.exc # NoExc THEN r
         ELSE SumTokensInHour(blocks, i + 1, current_time, RAdd(total_tokens, r.tokens))

calculate_hourly_burn_rate(blocks, current_time) ==
    IF blocks = <<>> THEN [exc |-> NoExc, rate |-> RZero]
    ELSE LET r == SumTokensInHour(blocks, 1, current_time, RZero) IN
         IF r.exc # NoExc THEN [exc |-> r.exc, rate |-> RZero]
         ELSE [exc |-> NoExc,
               rate |-> IF RGt(r.tokens, RZero) THEN RDiv(r.tokens, RInt(60)) ELSE RZero]

----------------------------------------------------------------------------
(* Burn rate: MonitorService._calculate_hourly_burn_rate                   *)

\* The loop: (total_tokens, earliest_time) after blocks i..Len(blocks).
RECURSIVE ServiceBurnLoop(_, _, _, _, _)
ServiceBurnLoop(blocks, i, current_time, total_tokens, earliest_time) ==
    IF i > Len(blocks)
    THEN [exc |-> NoExc, total_tokens |-> total_tokens, earliest_time |-> earliest_time]
    ELSE
    LET block == blocks[i]
        skip == ServiceBurnLoop(blocks, i + 1, current_time, total_tokens, earliest_time)
    IN
    IF ~block.isActive THEN skip
    ELSE IF IsNone(block.startTime) THEN skip
    ELSE
    LET ps == ParseService(Val(block.startTime)) IN
    IF ps.exc # NoExc
    THEN [exc |-> ps.exc, total_tokens |-> 0, earliest_time |-> current_time]
    ELSE IF ps.t >= current_time - HOUR
         THEN ServiceBurnLoop(blocks, i + 1, current_time,
                              total_tokens + block.totalTokens,
                              Min(ps.t, earliest_time))
         ELSE skip

service_calculate_hourly_burn_rate(blocks, current_time) ==
    LET r == ServiceBurnLoop(blocks, 1, current_time, 0, current_time) IN
    IF r.exc # NoExc THEN [exc |-> r.exc, rate |-> RZero]
    ELSE IF r.total_tokens = 0 \/ r.earliest_time >= current_time
         THEN [exc |-> NoExc, rate |-> RZero]
         ELSE LET elapsed_minutes == Rat(current_time - r.earliest_time, 60) IN
              [exc |-> NoExc,
               rate |-> IF RGt(elapsed_minutes, RZero)
                        THEN RDiv(RInt(r.total_tokens), elapsed_minutes)
                        ELSE RZero]

----------------------------------------------------------------------------
(* Limit resolver                                                          *)

\* claude_monitor.get_token_limit: limits = {"pro": ..., "max5": ..., "max20": ...}
TERMINAL_PRO == 44000
TERMINAL_MAX5 == 220000
TERMINAL_MAX20 == 880000
\* claude_monitor.get_token_limit: limits.get(plan, 44000)
TERMINAL_DEFAULT == 44000

\* MonitorService._get_token_limit: limits = {"pro": ..., "max5": ..., "max20": ...}
SERVICE_PRO == 7000
SERVICE_MAX5 == 35000
SERVICE_MAX20 == 140000

CUSTOM == "custom_max"

\* `blocks` as a Python condition: neither None nor the empty list
Truthy(blocks) == ~IsNone(blocks) /\ Val(blocks) # <<>>

\* get_token_limit's loop: max_tokens after blocks i..Len(blocks)
RECURSIVE TerminalMaxTokens(_, _, _)
TerminalMaxTokens(blocks, i, max_tokens) ==
    IF i > Len(blocks) THEN max_tokens
    ELSE LET block == blocks[i] IN
         IF ~block.isGap /\ ~block.isActive /\ block.totalTokens > max_tokens
         THEN TerminalMaxTokens(blocks, i + 1, block.totalTokens)
         ELSE TerminalMaxTokens(blocks, i + 1, max_tokens)

\* The resolver with the largest plan as the default of the table lookup.
get_token_limit_default_max20(plan, blocks) ==
    IF plan = CUSTOM /\ Truthy(blocks)
    THEN LET max_tokens == TerminalMaxTokens(Val(blocks), 1, 0) IN
         IF max_tokens > 0 THEN max_tokens ELSE TERMINAL_PRO
    ELSE CASE plan = "pro" -> TERMINAL_PRO
           [] plan = "max5" -> TERMINAL_MAX5
           [] plan = "max20" -> TERMINAL_MAX20
           [] OTHER -> TERMINAL_MAX20

\* The resolver reading the block list for every plan.
get_token_limit_any_plan(plan, blocks) ==
    IF Truthy(blocks)
    THEN LET max_tokens == TerminalMaxTokens(Val(blocks), 1, 0) IN
         IF max_tokens > 0 THEN max_tokens ELSE TERMINAL_PRO
    ELSE CASE plan = "pro" -> TERMINAL_PRO
           [] plan = "max5" -> TERMINAL_MAX5
           [] plan = "max20" -> TERMINAL_MAX20
           [] OTHER -> TERMINAL_DEFAULT

\* claude_monitor.get_token_limit(plan, blocks=None)
get_token_limit(plan, blocks) ==
    IF plan = CUSTOM /\ Truthy(blocks)
    THEN LET max_tokens == TerminalMaxTokens(Val(blocks), 1, 0) IN
         IF max_tokens > 0 THEN max_tokens ELSE TERMINAL_PRO
    ELSE CASE plan = "pro" -> TERMINAL_PRO
           [] plan = "max5" -> TERMINAL_MAX5
           [] plan = "max20" -> TERMINAL_MAX20
           [] OTHER -> TERMINAL_DEFAULT

\* _get_token_limit's loop: max_tokens after blocks i..Len(blocks)
RECURSIVE ServiceMaxTokens(_, _, _)
ServiceMaxTokens(blocks, i, max_tokens) ==
    IF i > Len(blocks) THEN max_tokens
    ELSE IF blocks[i].totalTokens > max_tokens
         THEN ServiceMaxTokens(blocks, i + 1, blocks[i].totalTokens)
         ELSE ServiceMaxTokens(blocks, i + 1, max_tokens)

\* The service's resolver without the fallback for a history without tokens.
service_get_token_limit_no_fallback(plan, blocks) ==
    IF plan = CUSTOM /\ Truthy(blocks)
    THEN (ServiceMaxTokens(Val(blocks), 1, 0) * 11) \div 10
    ELSE CASE plan = "pro" -> SERVICE_PRO
           [] plan = "max5" -> SERVICE_MAX5
           [] plan = "max20" -> SERVICE_MAX20
           [] OTHER -> SERVICE_PRO

\* MonitorService._get_token_limit(plan, blocks=None); int(max_tokens * 1.1)
\* is the floor of 11 * max_tokens / 10
service_get_token_limit(plan, blocks) ==
    IF plan = CUSTOM /\ Truthy(blocks)
    THEN LET max_tokens == ServiceMaxTokens(Val(blocks), 1, 0) IN
         IF max_tokens > 0 THEN (max_tokens * 11) \div 10 ELSE SERVICE_PRO
    ELSE CASE plan = "pro" -> SERVICE_PRO
           [] plan = "max5" -> SERVICE_MAX5
           [] plan = "max20" -> SERVICE_MAX20
           [] OTHER -> SERVICE_PRO

----------------------------------------------------------------------------
(* The steps of an evaluation cycle of the terminal monitor                *)

\* A fetch result is None, or Some([blocks |-> None]) (a dict without the
\* key, the empty dict among them), or Some([blocks |-> Some(list)]).
\* `data and "blocks" in data`, as main and get_current_status test it:
HasBlocks(data) == ~IsNone(data) /\ ~IsNone(Val(data).blocks)

\* The validation testing only that the fetch returned something.
fetch_and_validate_data_no_key(fetched) ==
    IF IsNone(fetched) THEN None ELSE fetched

\* claude_monitor.fetch_and_validate_data, on what analyze_usage returned
fetch_and_validate_data(fetched) ==
    IF IsNone(fetched) \/ IsNone(Val(fetched).blocks) THEN None ELSE fetched

BlocksOf(data) == Val(Val(data).blocks)

\* The search keeping the last active block of the list instead of the first.
RECURSIVE find_active_block_last(_, _)
find_active_block_last(blocks, i) ==
    IF i > Len(blocks) THEN 0
    ELSE LET later == find_active_block_last(blocks, i + 1) IN
         IF later # 0 THEN later
         ELSE IF blocks[i].isActive THEN i ELSE 0

\* claude_monitor.find_active_block, and the service's loop: the index of the
\* first active block from i on, 0 when there is none
RECURSIVE find_active_block(_, _)
find_active_block(blocks, i) ==
    IF i > Len(blocks) THEN 0
    ELSE IF blocks[i].isActive THEN i ELSE find_active_block(blocks, i + 1)

\* The token data with the largest total_tokens of the list added to tokens_used.
process_token_data_all_blocks(active_block, plan, blocks, limit) ==
    LET tokens_used == ServiceMaxTokens(blocks, 1, 0) + active_block.totalTokens
        original_limit == get_token_limit(plan, None)
        new_limit == IF tokens_used > limit /\ plan # CUSTOM
                     THEN get_token_limit(CUSTOM, Some(blocks))
                     ELSE limit
    IN  [tokens_used |-> tokens_used,
         token_limit |-> new_limit,
         original_limit |-> original_limit,
         tokens_left |-> Max(0, new_limit - tokens_used),
         usage_percentage |-> IF new_limit # 0
                              THEN RMul(Rat(tokens_used, new_limit), RInt(100))
                              ELSE RZero]

\* The token data with tokens_left the plain difference.
process_token_data_plain_difference(active_block, plan, blocks, limit) ==
    LET tokens_used == active_block.totalTokens
        original_limit == get_token_limit(plan, None)
        new_limit == IF tokens_used > limit /\ plan # CUSTOM
                     THEN get_token_limit(CUSTOM, Some(blocks))
                     ELSE limit
    IN  [tokens_used |-> tokens_used,
         token_limit |-> new_limit,
         original_limit |-> original_limit,
         tokens_left |-> new_limit - tokens_used,
         usage_percentage |-> IF new_limit # 0
                              THEN RMul(Rat(tokens_used, new_limit), RInt(100))
                              ELSE RZero]

\* claude_monitor.process_token_data
process_token_data(active_block, plan, blocks, limit) ==
    LET tokens_used == active_block.totalTokens
        original_limit == get_token_limit(plan, None)
        new_limit == IF tokens_used > limit /\ plan # CUSTOM
                     THEN get_token_limit(CUSTOM, Some(blocks))
                     ELSE limit
    IN  [tokens_used |-> tokens_used,
         token_limit |-> new_limit,
         original_limit |-> original_limit,
         tokens_left |-> Max(0, new_limit - tokens_used),
         usage_percentage |-> IF new_limit # 0
                              THEN RMul(Rat(tokens_used, new_limit), RInt(100))
                              ELSE RZero]

\* The time data with the 5 hours counted from the current time.
process_time_data_from_now(active_block, current_time) ==
    LET ps == IF IsNone(active_block.startTime)
              THEN [exc |-> NoExc, t |-> current_time]
              ELSE ParseTerminal(Val(active_block.startTime))
    IN
    IF ps.exc # NoExc THEN [exc |-> ps.exc, start_time |-> 0, reset_time |-> 0]
    ELSE
    LET pe == IF IsNone(active_block.endTime)
              THEN [exc |-> NoExc, t |-> current_time + FIVE_HOURS]
              ELSE ParseTerminal(Val(active_block.endTime))
    IN  [exc |-> pe.exc, start_time |-> ps.t, reset_time |-> pe.t]

\* claude_monitor.process_time_data
process_time_data(active_block, current_time) ==
    LET ps == IF IsNone(active_block.startTime)
              THEN [exc |-> NoExc, t |-> current_time]
              ELSE ParseTerminal(Val(active_block.startTime))
    IN
    IF ps.exc # NoExc THEN [exc |-> ps.exc, start_time |-> 0, reset_time |-> 0]
    ELSE
    LET pe == IF IsNone(active_block.endTime)
              THEN [exc |-> NoExc, t |-> ps.t + FIVE_HOURS]
              ELSE ParseTerminal(Val(active_block.endTime))
    IN  [exc |-> pe.exc, start_time |-> ps.t, reset_time |-> pe.t]

\* The prediction with the test on tokens_left dropped.
calculate_predictions_no_left(current_time, reset_time, burn_rate, tokens_left) ==
    IF RGt(burn_rate, RZero)
    THEN RAdd(RInt(current_time), RMul(RDiv(RInt(tokens_left), burn_rate), RInt(60)))
    ELSE RInt(reset_time)

\* claude_monitor.calculate_predictions: predicted_end_time (the strings it
\* formats for display are not modelled)
calculate_predictions(current_time, reset_time, burn_rate, tokens_left) ==
    IF RGt(burn_rate, RZero) /\ tokens_left > 0
    THEN LET minutes_to_depletion == RDiv(RInt(tokens_left), burn_rate) IN
         RAdd(RInt(current_time), RMul(minutes_to_depletion, RInt(60)))
    ELSE RInt(reset_time)

\* The conditions handle_notifications hands to the three debounce calls
notification_conditions(token_data, predicted_end_time, reset_time) ==
    [switch_to_custom |-> token_data.token_limit > token_data.original_limit,
     exceed_max_limit |-> token_data.tokens_used > token_data.token_limit,
     tokens_will_run_out |-> RLt(predicted_end_time, RInt(reset_time))]

\* claude_monitor.handle_notifications: the three debounce calls in order
handle_notifications(states, token_data, predicted_end_time, reset_time, current_time) ==
    LET c == notification_conditions(token_data, predicted_end_time, reset_time)
        r1 == update_notification_state(states, "switch_to_custom",
                  c.switch_to_custom, current_time)
        r2 == update_notification_state(r1.states, "exceed_max_limit",
                  c.exceed_max_limit, current_time)
        r3 == update_notification_state(r2.states, "tokens_will_run_out",
                  c.tokens_will_run_out, current_time)
    IN  [states |-> r3.states,
         show |-> [switch_to_custom |-> r1.ret, exceed_max_limit |-> r2.ret,
                   tokens_will_run_out |-> r3.ret]]

----------------------------------------------------------------------------
(* One evaluation cycle                                                    *)

NoShow == [k \in NotificationKinds |-> FALSE]

\* What a cycle leaves behind: the inputs it read (plan, data, time) and what
\* it produced.  status is "none" (no cycle yet), "no_data",
\* "no_active_session", "active" or "raised" (exc names the exception); a
\* direct call of process_token_data or _get_usage_warning_level leaves
\* "token_data" or "warning_level", and a direct call of the limit resolver
\* leaves "limit" with its blocks argument in blocks_arg.
NoCycle ==
    [status |-> "none", exc |-> NoExc, plan |-> "", data |-> None, time |-> 0,
     blocks_arg |-> None,
     active |-> 0, tokens_used |-> 0, token_limit |-> 0, original_limit |-> 0,
     tokens_left |-> 0, usage_percentage |-> RZero,
     start_time |-> 0, reset_time |-> 0, burn_rate |-> RZero,
     predicted_end_time |-> RZero, tokens_will_run_out |-> FALSE,
     plan_auto_switched |-> FALSE, tokens_exceeded_limit |-> FALSE,
     usage_warning_level |-> "", out_plan |-> "", show |-> NoShow]

\* One iteration of claude_monitor.run_normal_mode (run_compact_mode computes
\* the same values): the cycle record and the notification states after it.
run_normal_mode(data, current_time, plan, limit, states) ==
    LET in == [NoCycle EXCEPT !.plan = plan, !.data = data, !.time = current_time,
                              !.out_plan = plan]
    IN
    LET valid == fetch_and_validate_data(data) IN
    IF IsNone(valid)
    THEN [cycle |-> [in EXCEPT !.status = "no_data"], states |-> states]
    ELSE IF IsNone(Val(valid).blocks)     \* data["blocks"]
    THEN [cycle |-> [in EXCEPT !.status = "raised", !.exc = "KeyError"], states |-> states]
    ELSE
    LET blocks == BlocksOf(valid)
        a == find_active_block(blocks, 1)
    IN
    IF a = 0
    THEN [cycle |-> [in EXCEPT !.status = "no_active_session", !.token_limit = limit],
          states |-> states]
    ELSE
    LET active_block == blocks[a]
        token_data == process_token_data(active_block, plan, blocks, limit)
        time_data == process_time_data(active_block, current_time)
    IN
    IF time_data.exc # NoExc
    THEN [cycle |-> [in EXCEPT !.status = "raised", !.exc = time_data.exc, !.active = a],
          states |-> states]
    ELSE
    LET burn == calculate_hourly_burn_rate(blocks, current_time) IN
    IF burn.exc # NoExc
    THEN [cycle |-> [in EXCEPT !.status = "raised", !.exc = burn.exc, !.active = a],
          states |-> states]
    ELSE
    LET predicted_end_time == calculate_predictions(current_time, time_data.reset_time,
                                                    burn.rate, token_data.tokens_left)
        n == handle_notifications(states, token_data, predicted_end_time,
                                  time_data.reset_time, current_time)
        c == notification_conditions(token_data, predicted_end_time, time_data.reset_time)
    IN
    [cycle |-> [in EXCEPT
          !.status = "active", !.active = a,
          !.tokens_used = token_data.tokens_used,
          !.token_limit = token_data.token_limit,
          !.original_limit = token_data.original_limit,
          !.tokens_left = token_data.tokens_left,
          !.usage_percentage = token_data.usage_percentage,
          !.start_time = time_data.start_time,
          !.reset_time = time_data.reset_time,
          !.burn_rate = burn.rate,
          !.predicted_end_time = predicted_end_time,
          !.tokens_will_run_out = c.tokens_will_run_out,
          !.plan_auto_switched = c.switch_to_custom,
          !.tokens_exceeded_limit = c.exceed_max_limit,
          !.show = n.show],
     states |-> n.states]

\* MonitorService.get_current_status: start_time and reset_time of the
\* active block
service_time_data(active_block, current_time) ==
    LET ps == IF IsNone(active_block.startTime)
              THEN [exc |-> NoExc, t |-> current_time]
              ELSE ParseService(Val(active_block.startTime))
    IN
    IF ps.exc # NoExc THEN [exc |-> ps.exc, start_time |-> 0, reset_time |-> 0]
    ELSE
    LET pe == IF IsNone(active_block.endTime)
              THEN [exc |-> NoExc, t |-> ps.t + FIVE_HOURS]
              ELSE ParseService(Val(active_block.endTime))
    IN  [exc |-> pe.exc, start_time |-> ps.t, reset_time |-> pe.t]

\* MonitorService.get_current_status: the limit and the plan after the
\* auto-switch step
service_auto_switch(plan, tokens_used, blocks) ==
    LET blocks_for_custom == IF plan = CUSTOM THEN Some(blocks) ELSE None
        limit == service_get_token_limit(plan, blocks_for_custom)
        new_limit == service_get_token_limit(CUSTOM, Some(blocks))
    IN
    IF tokens_used > limit /\ plan # CUSTOM /\ new_limit > limit
    THEN [token_limit |-> new_limit, plan |-> CUSTOM]
    ELSE [token_limit |-> limit, plan |-> plan]

\* MonitorService._get_usage_warning_level
get_usage_warning_level(tokens_used, limit) ==
    IF limit = 0 THEN "safe"
    ELSE LET percentage == RMul(Rat(tokens_used, limit), RInt(100)) IN
         IF RLe(RInt(90), percentage) THEN "critical"
         ELSE IF RLe(RInt(70), percentage) THEN "warning"
         ELSE IF RLe(RInt(50), percentage) THEN "moderate"
         ELSE "safe"

\* MonitorService._get_notification_conditions
service_notification_conditions(tokens_used, limit, original_limit, predicted_end_time, reset_time, current_plan) ==
    [plan_auto_switched |-> limit > original_limit,
     tokens_exceeded_limit |-> tokens_used > limit,
     tokens_will_run_out_before_reset |-> RLt(predicted_end_time, RInt(reset_time)),
     usage_warning_level |-> get_usage_warning_level(tokens_used, limit),
     current_plan |-> current_plan,
     auto_switched_to_custom |-> current_plan = CUSTOM /\ limit > original_limit]

\* MonitorService.get_current_status(plan): the status it returns
get_current_status(plan, data, current_time) ==
    LET in == [NoCycle EXCEPT !.plan = plan, !.data = data, !.time = current_time,
                              !.out_plan = plan]
    IN
    IF ~HasBlocks(data) THEN [in EXCEPT !.status = "no_data"]
    ELSE
    LET blocks == BlocksOf(data)
        a == find_active_block(blocks, 1)
    IN
    IF a = 0
    THEN [in EXCEPT !.status = "no_active_session",
                    !.token_limit = service_get_token_limit(plan, None)]
    ELSE
    LET active_block == blocks[a]
        tokens_used == active_block.totalTokens
        original_limit == service_get_token_limit(plan, None)
        sw == service_auto_switch(plan, tokens_used, blocks)
        time_data == service_time_data(active_block, current_time)
    IN
    IF time_data.exc # NoExc
    THEN [in EXCEPT !.status = "raised", !.exc = time_data.exc, !.active = a]
    ELSE
    LET burn == service_calculate_hourly_burn_rate(blocks, current_time) IN
    IF burn.exc # NoExc
    THEN [in EXCEPT !.status = "raised", !.exc = burn.exc, !.active = a]
    ELSE
    LET tokens_left == sw.token_limit - tokens_used
        predicted_end_time ==
            IF RGt(burn.rate, RZero) /\ tokens_left > 0
            THEN LET minutes_to_depletion == RDiv(RInt(tokens_left), burn.rate) IN
                 RAdd(RInt(current_time), RMul(minutes_to_depletion, RInt(60)))
            ELSE RInt(time_data.reset_time)
        notifications == service_notification_conditions(
                             tokens_used, sw.token_limit, original_limit,
                             predicted_end_time, time_data.reset_time, sw.plan)
    IN
    [in EXCEPT
          !.status = "active", !.active = a,
          !.tokens_used = tokens_used,
          !.token_limit = sw.token_limit,
          !.original_limit = original_limit,
          !.tokens_left = tokens_left,
          !.usage_percentage = IF sw.token_limit > 0
                               THEN RMul(Rat(tokens_used, sw.token_limit), RInt(100))
                               ELSE RZero,
          !.start_time = time_data.start_time,
          !.reset_time = time_data.reset_time,
          !.burn_rate = burn.rate,
          !.predicted_end_time = predicted_end_time,
          !.tokens_will_run_out = RLt(predicted_end_time, RInt(time_data.reset_time)),
          !.plan_auto_switched = notifications.plan_auto_switched,
          !.tokens_exceeded_limit = notifications.tokens_exceeded_limit,
          !.usage_warning_level = notifications.usage_warning_level,
          !.out_plan = sw.plan]

----------------------------------------------------------------------------
(* RateLimitMiddleware (web/api/middleware/security.py)                    *)

\* create_app: app.add_middleware(RateLimitMiddleware, calls_per_minute=...),
\* scaled down
CallsPerMinute == 2

\* dispatch: an entry counts while current_time - timestamp < 60
RATE_WINDOW == 60

\* RateLimitMiddleware.__init__, and no request seen so far.  request_counts
\* is the dict ip -> list of (timestamp, count); served is the history of
\* the requests dispatched: client ip, time, and how dispatch ended.
NewLimiter ==
    [calls_per_minute |-> CallsPerMinute,
     request_counts |-> [ip \in {} |-> <<>>],
     served |-> <<>>]

RECURSIVE SumCounts(_, _)
SumCounts(entries, i) ==
    IF i > Len(entries) THEN 0 ELSE entries[i].count + SumCounts(entries, i + 1)

Recent(entries, current_time) ==
    SelectSeq(entries, LAMBDA e : current_time - e.timestamp < RATE_WINDOW)

\* dispatch: self.request_counts after "Clean old entries"
CleanOldEntries(request_counts, current_time) ==
    [ip \in {i \in DOMAIN request_counts :
                \E k \in 1..Len(request_counts[i]) :
                    current_time - request_counts[i][k].timestamp < RATE_WINDOW}
        |-> Recent(request_counts[ip], current_time)]

\* request.client.host if request.client else "unknown"
ClientIp(client) == IF IsNone(client) THEN "unknown" ELSE Val(client)

\* The dispatch rejecting only above the limit.
dispatch_above_limit(calls_per_minute, request_counts, client, current_time) ==
    LET client_ip == ClientIp(client)
        cleaned == CleanOldEntries(request_counts, current_time)
        ip_requests == IF client_ip \in DOMAIN cleaned THEN cleaned[client_ip] ELSE <<>>
        recent_requests == SumCounts(Recent(ip_requests, current_time), 1)
    IN
    IF recent_requests > calls_per_minute
    THEN [exc |-> "HTTPException", status_code |-> 429, forwarded |-> FALSE,
          remaining |-> None, request_counts |-> cleaned]
    ELSE [exc |-> NoExc, status_code |-> 200, forwarded |-> TRUE,
          remaining |-> Some(Max(0, calls_per_minute - recent_requests - 1)),
          request_counts |->
              [ip \in DOMAIN cleaned \cup {client_ip} |->
                  IF ip = client_ip
                  THEN Append(ip_requests, [timestamp |-> current_time, count |-> 1])
                  ELSE cleaned[ip]]]

\* RateLimitMiddleware.dispatch: how it ends (the HTTPException it raises,
\* or the response of call_next, 200 here, with X-RateLimit-Remaining) and
\* self.request_counts after it
dispatch(calls_per_minute, request_counts, client, current_time) ==
    LET client_ip == ClientIp(client)
        cleaned == CleanOldEntries(request_counts, current_time)
        ip_requests == IF client_ip \in DOMAIN cleaned THEN cleaned[client_ip] ELSE <<>>
        recent_requests == SumCounts(Recent(ip_requests, current_time), 1)
    IN
    IF recent_requests >= calls_per_minute
    THEN [exc |-> "HTTPException", status_code |-> 429, forwarded |-> FALSE,
          remaining |-> None, request_counts |-> cleaned]
    ELSE [exc |-> NoExc, status_code |-> 200, forwarded |-> TRUE,
          remaining |-> Some(Max(0, calls_per_minute - recent_requests - 1)),
          request_counts |->
              [ip \in DOMAIN cleaned \cup {client_ip} |->
                  IF ip = client_ip
                  THEN Append(ip_requests, [timestamp |-> current_time, count |-> 1])
                  ELSE cleaned[ip]]]

----------------------------------------------------------------------------
(* IntelligentCache (usage_analyzer/core/cache.py)                         *)
(*                                                                         *)
(* _cache is a dict, which iterates in insertion order: it is the sequence *)
(* of its entries, each with its key.  A Python value is an optional: None *)
(* or Some(v).  datetime.now() is the clock; every reading within one call *)
(* gives the same instant.  The counters no branch reads (_stats and       *)
(* CacheEntry.access_count) are left out.                                  *)

\* IntelligentCache(default_ttl, max_size), scaled down from 30 s and 100
DefaultTtl == 1
CacheMaxSize == 2

\* CacheEntry.__init__
CacheEntry(key, data, ttl_seconds, t) ==
    [key |-> key, data |-> data, created_at |-> t, ttl_seconds |-> ttl_seconds,
     last_accessed |-> t]

\* CacheEntry.is_expired
is_expired(entry, t) == t - entry.created_at > entry.ttl_seconds

\* CacheEntry.time_until_expiry
time_until_expiry(entry, t) == Max(0, entry.ttl_seconds - (t - entry.created_at))

\* The place of key in the dict, 0 when it is not a key of it.
KeyIndex(entries, key) ==
    IF \E i \in 1..Len(entries) : entries[i].key = key
    THEN CHOOSE i \in 1..Len(entries) : entries[i].key = key
    ELSE 0

\* del d[key] for the key at place i
DictDel(entries, i) ==
    [j \in 1..(Len(entries) - 1) |-> IF j < i THEN entries[j] ELSE entries[j + 1]]

\* d[key] = entry: an existing key keeps its place, a new one goes last
DictPut(entries, entry) ==
    LET i == KeyIndex(entries, entry.key) IN
    IF i = 0 THEN Append(entries, entry) ELSE [entries EXCEPT ![i] = entry]

\* The eviction removing the entry created first.
evict_lru_oldest_created(entries) ==
    IF entries = <<>> THEN entries
    ELSE LET lru == CHOOSE i \in 1..Len(entries) :
                        /\ \A j \in 1..Len(entries) :
                               entries[i].created_at <= entries[j].created_at
                        /\ \A j \in 1..(i - 1) :
                               entries[j].created_at > entries[i].created_at
         IN  DictDel(entries, lru)

\* IntelligentCache._evict_lru: min() keeps the first key, in iteration
\* order, whose last_accessed is the least
evict_lru(entries) ==
    IF entries = <<>> THEN entries
    ELSE LET lru == CHOOSE i \in 1..Len(entries) :
                        /\ \A j \in 1..Len(entries) :
                               entries[i].last_accessed <= entries[j].last_accessed
                        /\ \A j \in 1..(i - 1) :
                               entries[j].last_accessed > entries[i].last_accessed
         IN  DictDel(entries, lru)

\* IntelligentCache.get: the value returned and _cache after the call
cache_get(entries, key, t) ==
    LET i == KeyIndex(entries, key) IN
    IF i = 0 THEN [ret |-> None, entries |-> entries]
    ELSE IF is_expired(entries[i], t)
         THEN [ret |-> None, entries |-> DictDel(entries, i)]
         ELSE [ret |-> entries[i].data,
               entries |-> [entries EXCEPT ![i].last_accessed = t]]

\* IntelligentCache.set; `ttl or self.default_ttl` takes the default for
\* None and for 0
cache_set(default_ttl, max_size, entries, key, value, ttl, t) ==
    LET ttl_seconds == IF IsNone(ttl) \/ Val(ttl) = 0 THEN default_ttl ELSE Val(ttl)
        room == IF Len(entries) >= max_size /\ KeyIndex(entries, key) = 0
                THEN evict_lru(entries)
                ELSE entries
    IN  DictPut(room, CacheEntry(key, value, ttl_seconds, t))

\* IntelligentCache.invalidate
cache_invalidate(entries, key) ==
    LET i == KeyIndex(entries, key) IN
    IF i # 0 THEN [ret |-> TRUE, entries |-> DictDel(entries, i)]
    ELSE [ret |-> FALSE, entries |-> entries]

\* A call of compute_func: it returns Some(value), the value being a Python
\* value, or raises.
Returns(value) == [exc |-> NoExc, value |-> value]
Raises == [exc |-> "Exception", value |-> None]

\* IntelligentCache.get_or_compute; computed tells whether compute_func ran
get_or_compute(default_ttl, max_size, entries, key, compute_func, ttl, t) ==
    LET g == cache_get(entries, key, t) IN
    IF ~IsNone(g.ret)
    THEN [exc |-> NoExc, ret |-> g.ret, computed |-> FALSE, entries |-> g.entries]
    ELSE IF compute_func.exc # NoExc
         THEN [exc |-> compute_func.exc, ret |-> None, computed |-> TRUE,
               entries |-> g.entries]
         ELSE [exc |-> NoExc, ret |-> compute_func.value, computed |-> TRUE,
               entries |-> cache_set(default_ttl, max_size, g.entries, key,
                                     compute_func.value, ttl, t)]

\* refresh_if_needed's default refresh_threshold, 0.8
REFRESH_THRESHOLD == Rat(4, 5)

\* IntelligentCache.refresh_if_needed
refresh_if_needed(entries, key, compute_func, refresh_threshold, t) ==
    LET i == KeyIndex(entries, key) IN
    IF i = 0 THEN [ret |-> None, computed |-> FALSE, entries |-> entries]
    ELSE
    LET entry == entries[i] IN
    IF is_expired(entry, t) THEN [ret |-> None, computed |-> FALSE, entries |-> entries]
    ELSE
    LET remaining_ratio == Rat(time_until_expiry(entry, t), entry.ttl_seconds)
        access == [ret |-> entry.data,
                   entries |-> [entries EXCEPT ![i].last_accessed = t]]
    IN
    IF RLt(remaining_ratio, refresh_threshold)
    THEN IF compute_func.exc = NoExc
         THEN [ret |-> compute_func.value, computed |-> TRUE,
               entries |-> DictPut(entries, CacheEntry(key, compute_func.value,
                                                       entry.ttl_seconds, t))]
         ELSE [ret |-> access.ret, computed |-> TRUE, entries |-> access.entries]
    ELSE [ret |-> access.ret, computed |-> FALSE, entries |-> access.entries]

\* No call made yet.
NoCacheCall ==
    [op |-> "none", key |-> "", before |-> <<>>, ret |-> None, exc |-> NoExc,
     computed |-> FALSE]

\* IntelligentCache.__init__; last is the last call made on the cache: the
\* operation, its key, _cache before it and how it ended.
NewCache ==
    [default_ttl |-> DefaultTtl, max_size |-> CacheMaxSize, entries |-> <<>>,
     last |-> NoCacheCall]

----------------------------------------------------------------------------
(* EventBus (usage_analyzer/core/events.py)                                *)
(*                                                                         *)
(* A subscriber is its subscriber_id.  _subscribers is the dict            *)
(* event type -> list of subscribers, a function on the types that have    *)
(* been subscribed to; _event_history holds the types of the events.       *)

\* EventBus._max_history, scaled down from 1000
MaxHistory == 1

\* No event emitted yet.
NoEmit ==
    [event_type |-> "", specific |-> <<>>, all_subscribers |-> <<>>, handled |-> <<>>]

\* EventBus.__init__; last is the last emit: the event's type, the
\* registrations it found for that type and for all events, and the
\* handle_event calls it led to, in order, each with whether the callback
\* raised.
NewBus ==
    [subscribers |-> [et \in {} |-> <<>>], all_subscribers |-> <<>>,
     event_history |-> <<>>, max_history |-> MaxHistory, last |-> NoEmit]

\* `x in list`
InList(list, x) == \E i \in 1..Len(list) : list[i] = x

\* list.remove(x): the first occurrence goes
ListRemove(list, x) ==
    LET i == CHOOSE k \in 1..Len(list) : list[k] = x /\ \A j \in 1..(k - 1) : list[j] # x
    IN  [j \in 1..(Len(list) - 1) |-> IF j < i THEN list[j] ELSE list[j + 1]]

\* EventBus._subscribe_single
subscribe_single(subscribers, event_type, subscriber) ==
    LET present == [et \in DOMAIN subscribers \cup {event_type} |->
                       IF et \in DOMAIN subscribers THEN subscribers[et] ELSE <<>>]
    IN  IF InList(present[event_type], subscriber) THEN present
        ELSE [present EXCEPT ![event_type] = Append(@, subscriber)]

\* EventBus.subscribe with a list of event types: the loop from the i-th on
RECURSIVE subscribe_list(_, _, _, _)
subscribe_list(subscribers, event_types, i, subscriber) ==
    IF i > Len(event_types) THEN subscribers
    ELSE subscribe_list(subscribe_single(subscribers, event_types[i], subscriber),
                        event_types, i + 1, subscriber)

\* EventBus.subscribe_all
subscribe_all(all_subscribers, subscriber) ==
    IF InList(all_subscribers, subscriber) THEN all_subscribers
    ELSE Append(all_subscribers, subscriber)

\* EventBus.unsubscribe(subscriber, event_type): _subscribers after it
unsubscribe_types(subscribers, subscriber, event_type) ==
    [et \in DOMAIN subscribers |->
        IF (IsNone(event_type) \/ Val(event_type) = et) /\ InList(subscribers[et], subscriber)
        THEN ListRemove(subscribers[et], subscriber)
        ELSE subscribers[et]]

\* EventBus.unsubscribe(subscriber, event_type): _all_subscribers after it
unsubscribe_all(all_subscribers, subscriber, event_type) ==
    IF IsNone(event_type) /\ InList(all_subscribers, subscriber)
    THEN ListRemove(all_subscribers, subscriber)
    ELSE all_subscribers

\* EventBus.emit: the list `subscribers` it hands to _notify_subscribers
emit_subscribers(subscribers, all_subscribers, event_type) ==
    (IF event_type \in DOMAIN subscribers THEN subscribers[event_type] ELSE <<>>)
        \o all_subscribers

\* EventBus.emit: _event_history after the append and the pop(0)
emit_history(event_history, max_history, event_type) ==
    LET h == Append(event_history, event_type) IN
    IF Len(h) > max_history THEN Tail(h) ELSE h

----------------------------------------------------------------------------
(* ConnectionManager (web/api/websocket/manager.py)                        *)
(*                                                                         *)
(* The manager's coroutines run on one event loop: a coroutine runs alone  *)
(* from one await to the next, and the others run while it is suspended.   *)
(* The dictionaries are functions on the client ids present.  A websocket  *)
(* is named after the call that brought it.  The timestamps of the         *)
(* metadata are left out: no operation modelled here reads them.           *)

ManagerClients == {"c1", "c2"}
MaxReconnections == 1

\* ConnectionManager.__init__, with the coroutines at rest.  running is the
\* await at which each client's connect or handle_reconnection is suspended,
\* shutdown the one at which graceful_shutdown is; tasks are the
\* send_personal_message tasks created and not yet run, oldest first;
\* received is what the client's present websocket was sent, graceful the
\* clients whose present websocket graceful_disconnect removed.  loop is
\* the place of the running _broadcast_loop task: at the top of an
\* iteration, or inside it with the plans it has still to serve;
\* last_broadcast is the last usage_update it sent: its plan and, for each
\* client it was delivered to, the plan that client had selected.
NoBroadcast == [type |-> "", plan |-> "", delivered |-> [c \in {} |-> ""]]

NewLoop == [pc |-> "top", plans |-> {}]

NewManager ==
    [active_connections |-> [c \in {} |-> ""],
     connection_metadata |-> [c \in {} |-> <<>>],
     broadcast_task |-> "none",
     is_broadcasting |-> FALSE,
     loop |-> NewLoop,
     last_broadcast |-> NoBroadcast,
     running |-> [c \in ManagerClients |-> "idle"],
     shutdown |-> "idle",
     tasks |-> <<>>,
     received |-> [c \in ManagerClients |-> {}],
     graceful |-> {}]

\* del d[k]
Without(d, k) == [x \in DOMAIN d \ {k} |-> d[x]]

\* d[k] = v
With(d, k, v) == [x \in DOMAIN d \cup {k} |-> IF x = k THEN v ELSE d[x]]

\* ConnectionManager.start_broadcasting
start_broadcasting(m) ==
    IF ~m.is_broadcasting
    THEN [m EXCEPT !.is_broadcasting = TRUE, !.broadcast_task = "running",
                   !.loop = NewLoop]
    ELSE m

\* ConnectionManager.stop_broadcasting
stop_broadcasting(m) ==
    IF m.is_broadcasting
    THEN [m EXCEPT !.is_broadcasting = FALSE,
                   !.broadcast_task = IF @ = "none" THEN @ ELSE "cancelled"]
    ELSE m

\* ConnectionManager.disconnect
disconnect(m, client_id) ==
    LET m1 == IF client_id \in DOMAIN m.active_connections
              THEN [m EXCEPT
                      !.active_connections = Without(@, client_id),
                      !.connection_metadata = Without(@, client_id)]
              ELSE m
    IN IF Cardinality(DOMAIN m1.active_connections) = 0 /\ m1.is_broadcasting
       THEN stop_broadcasting(m1)
       ELSE m1

\* ConnectionManager.send_personal_message from the return of its send_text:
\* ok when the message went out, otherwise send_text raised.
sent_personal_message(m, type, client_id, ok) ==
    IF ok
    THEN [m EXCEPT !.received[client_id] = @ \cup {type}]
    ELSE disconnect(m, client_id)

\* ConnectionManager.send_personal_message run in one piece, as a task
send_personal_message(m, type, client_id, ok) ==
    IF client_id \in DOMAIN m.active_connections
    THEN sent_personal_message(m, type, client_id, ok)
    ELSE m

\* ConnectionManager.connect up to the await of accept(), for a client id
\* and a websocket that are new
connect(m, client_id) ==
    [m EXCEPT !.running[client_id] = "accept",
              !.received[client_id] = {},
              !.graceful = @ \ {client_id}]

\* ConnectionManager.connect from the return of accept() to the await of the
\* welcome message's send_text
connect_accepted(m, client_id) ==
    [m EXCEPT
       !.active_connections = With(@, client_id, "ws_connect"),
       !.connection_metadata =
           With(@, client_id, [plan |-> "pro", reconnection_count |-> None]),
       !.running[client_id] = "welcome"]

\* ConnectionManager.connect from the return of the welcome message's
\* send_text to its end
connect_welcomed(m, client_id, ok) ==
    LET m1 == sent_personal_message(m, "connection_established", client_id, ok)
        m2 == IF Cardinality(DOMAIN m1.active_connections) = 1
                 /\ ~m1.is_broadcasting
              THEN start_broadcasting(m1)
              ELSE m1
    IN [m2 EXCEPT !.running[client_id] = "idle"]

\* metadata.get("reconnection_count", 0)
get_reconnection_count(metadata) ==
    IF IsNone(metadata.reconnection_count) THEN 0
    ELSE Val(metadata.reconnection_count)

\* ConnectionManager.handle_reconnection from the new connection's
\* assignment to the await of the confirmation's send_text
reconnection_updated(m, client_id) ==
    LET meta == m.connection_metadata
        count == IF client_id \in DOMAIN meta
                 THEN Some(get_reconnection_count(meta[client_id]) + 1)
                 ELSE Some(0)
        plan == IF client_id \in DOMAIN meta THEN meta[client_id].plan ELSE "pro"
    IN [m EXCEPT
          !.active_connections = With(@, client_id, "ws_reconnect"),
          !.connection_metadata =
              With(@, client_id, [plan |-> plan, reconnection_count |-> count]),
          !.received[client_id] = {},
          !.graceful = @ \ {client_id},
          !.running[client_id] = "confirm"]

\* ConnectionManager.handle_reconnection up to its first await
handle_reconnection(m, client_id) ==
    IF client_id \in DOMAIN m.active_connections
    THEN [m EXCEPT !.running[client_id] = "closing"]
    ELSE reconnection_updated(m, client_id)

\* ConnectionManager.handle_reconnection from the return of the
\* confirmation's send_text to its end
reconnection_confirmed(m, client_id, ok) ==
    [sent_personal_message(m, "reconnection_established", client_id, ok)
        EXCEPT !.running[client_id] = "idle"]

\* ConnectionManager.graceful_disconnect: create_task queues the
\* notification's coroutine, which starts only when the caller next awaits
graceful_disconnect(m, client_id) ==
    IF client_id \in DOMAIN m.active_connections
    THEN [disconnect([m EXCEPT !.tasks = Append(@, client_id)], client_id)
             EXCEPT !.graceful = @ \cup {client_id}]
    ELSE m

\* ConnectionManager.broadcast: the message goes to every connection but
\* those in failed, whose send_text raises and which are disconnected
RECURSIVE disconnect_all(_, _)
disconnect_all(m, clients) ==
    IF clients = {} THEN m
    ELSE LET c == CHOOSE x \in clients : TRUE
         IN disconnect_all(disconnect(m, c), clients \ {c})

broadcast(m, type, failed) ==
    LET targets == DOMAIN m.active_connections
        m1 == [m EXCEPT !.received =
                  [c \in ManagerClients |->
                      IF c \in targets \ failed THEN @[c] \cup {type} ELSE @[c]]]
    IN disconnect_all(m1, targets \cap failed)

\* handle_client_message for a set_plan message: the plan is stored for a
\* client that has metadata, and plan_updated is sent
set_plan(m, client_id, plan, ok) ==
    LET m1 == IF client_id \in DOMAIN m.connection_metadata
              THEN [m EXCEPT !.connection_metadata[client_id].plan = plan]
              ELSE m
    IN send_personal_message(m1, "plan_updated", client_id, ok)

\* ConnectionManager._broadcast_loop: the plans of an iteration
broadcast_loop_plans(m) ==
    {m.connection_metadata[c].plan : c \in DOMAIN m.connection_metadata}

\* ConnectionManager._broadcast_loop: the usage_update of one plan, sent
\* with broadcast when get_current_status returned and skipped when it
\* raised
broadcast_usage_update(m, plan, status_ok, failed) ==
    LET targets == DOMAIN m.active_connections \ failed
        m1 == IF status_ok
              THEN [broadcast(m, "usage_update", failed) EXCEPT
                      !.last_broadcast =
                          [type |-> "usage_update", plan |-> plan,
                           delivered |-> [c \in targets |->
                                             m.connection_metadata[c].plan]]]
              ELSE m
    IN [m1 EXCEPT !.loop.plans = @ \ {plan}]

\* ConnectionManager._broadcast_loop: the heartbeat closing an iteration
broadcast_heartbeat(m, failed) ==
    [broadcast(m, "heartbeat", failed) EXCEPT !.loop = NewLoop]

\* ConnectionManager.graceful_shutdown from the return of its sleep to its
\* end
RECURSIVE graceful_disconnect_all(_, _)
graceful_disconnect_all(m, clients) ==
    IF clients = {} THEN m
    ELSE LET c == CHOOSE x \in clients : TRUE
         IN graceful_disconnect_all(graceful_disconnect(m, c), clients \ {c})

graceful_shutdown_close(m) ==
    LET m1 == stop_broadcasting(m) IN
    [graceful_disconnect_all(m1, DOMAIN m1.active_connections)
        EXCEPT !.shutdown = "done"]


----------------------------------------------------------------------------
(* UsageDataCache (usage_analyzer/core/cache.py)                           *)
(*                                                                         *)
(* The object owns one IntelligentCache, in which it uses the one key      *)
(* "usage_data".  Usage data is what a fetch returns: None, or a dict      *)
(* without blocks, or a dict with its list of blocks.                      *)

\* UsageDataCache(ttl_seconds), scaled down from 30 s
UsageTtl == 2

USAGE_KEY == "usage_data"

\* No call made yet.
NoUsageCall ==
    [op |-> "none", before |-> <<>>, ret |-> None, fetched |-> FALSE,
     tokens_changed |-> FALSE]

\* UsageDataCache.__init__; last is the last call made on the object: the
\* operation, the cache's entries before it, what it returned, whether it
\* called fetch_func and whether it took the token-change branch.
NewUsageDataCache ==
    [default_ttl |-> UsageTtl, max_size |-> CacheMaxSize, entries |-> <<>>,
     last_token_count |-> 0, last |-> NoUsageCall]

\* UsageDataCache._extract_token_count's loop from block i on
RECURSIVE ActiveTokens(_, _)
ActiveTokens(blocks, i) ==
    IF i > Len(blocks) THEN 0
    ELSE (IF blocks[i].isActive THEN blocks[i].totalTokens ELSE 0)
             + ActiveTokens(blocks, i + 1)

\* UsageDataCache._extract_token_count
extract_token_count(data) ==
    IF IsNone(data.blocks) THEN 0 ELSE ActiveTokens(Val(data.blocks), 1)

\* The call that stores fresh data and leaves _last_token_count as it was.
usage_get_usage_data_stale_count(uc, fetch_func, t) ==
    LET g == cache_get(uc.entries, USAGE_KEY, t)
        hit == ~IsNone(g.ret)
        changed == hit /\ extract_token_count(Val(g.ret)) # uc.last_token_count
    IN
    IF hit /\ ~changed
    THEN [uc EXCEPT !.entries = g.entries,
                    !.last = [op |-> "get_usage_data", before |-> uc.entries,
                              ret |-> g.ret, fetched |-> FALSE,
                              tokens_changed |-> FALSE]]
    ELSE
    LET e1 == IF changed THEN cache_invalidate(g.entries, USAGE_KEY).entries
              ELSE g.entries
        fresh_data == fetch_func
    IN
    [uc EXCEPT
        !.entries = IF ~IsNone(fresh_data)
                    THEN cache_set(uc.default_ttl, uc.max_size, e1, USAGE_KEY,
                                   fresh_data, None, t)
                    ELSE e1,
        !.last = [op |-> "get_usage_data", before |-> uc.entries,
                  ret |-> fresh_data, fetched |-> TRUE, tokens_changed |-> changed]]

\* UsageDataCache.get_usage_data(fetch_func), fetch_func being what the call
\* of it would return
usage_get_usage_data(uc, fetch_func, t) ==
    LET g == cache_get(uc.entries, USAGE_KEY, t)
        hit == ~IsNone(g.ret)
        changed == hit /\ extract_token_count(Val(g.ret)) # uc.last_token_count
    IN
    IF hit /\ ~changed
    THEN [uc EXCEPT !.entries = g.entries,
                    !.last = [op |-> "get_usage_data", before |-> uc.entries,
                              ret |-> g.ret, fetched |-> FALSE,
                              tokens_changed |-> FALSE]]
    ELSE
    LET e1 == IF changed THEN cache_invalidate(g.entries, USAGE_KEY).entries
              ELSE g.entries
        fresh_data == fetch_func
    IN
    [uc EXCEPT
        !.entries = IF ~IsNone(fresh_data)
                    THEN cache_set(uc.default_ttl, uc.max_size, e1, USAGE_KEY,
                                   fresh_data, None, t)
                    ELSE e1,
        !.last_token_count = IF ~IsNone(fresh_data)
                             THEN extract_token_count(Val(fresh_data))
                             ELSE @,
        !.last = [op |-> "get_usage_data", before |-> uc.entries,
                  ret |-> fresh_data, fetched |-> TRUE, tokens_changed |-> changed]]

\* UsageDataCache.invalidate
usage_invalidate(uc) ==
    [uc EXCEPT !.entries = cache_invalidate(uc.entries, USAGE_KEY).entries,
               !.last_token_count = 0,
               !.last = [NoUsageCall EXCEPT !.op = "invalidate",
                                            !.before = uc.entries]]

----------------------------------------------------------------------------
(* WebSocketAuth (web/api/websocket/auth.py)                               *)

(*                                                                         *)
(* A token is described by what jwt.decode finds in it: whether the string *)
(* is empty, whether it is signed with JWT_SECRET_KEY, its "type" and its  *)
(* "exp" instant.  auth_time, which nothing reads, is left out.            *)

WEBSOCKET_ACCESS == "websocket_access"

Token(empty, signed, type, exp) ==
    [empty |-> empty, signed |-> signed, type |-> type, exp |-> exp]

\* WebSocketAuth.__init__; calls is, for each client, the last
\* authenticate_client call made for it, if any: whether verify_token
\* accepted its token and what the call returned.
NewAuth ==
    [authenticated_clients |-> [c \in {} |-> <<>>],
     calls |-> [c \in {} |-> <<>>]]

\* WebSocketAuth.verify_token: the payload, or None.  jwt.decode raises
\* InvalidTokenError for a bad signature and for an exp that has passed.
verify_token(token, t) ==
    IF ~token.signed \/ (~IsNone(token.exp) /\ t > Val(token.exp)) THEN None
    ELSE IF token.type # WEBSOCKET_ACCESS THEN None
    ELSE Some([type |-> token.type, exp |-> token.exp])

\* WebSocketAuth.authenticate_client(client_id, token); `not token` holds
\* for None and for the empty string
authenticate_client(a, client_id, token, t) ==
    IF IsNone(token) \/ Val(token).empty
    THEN [a EXCEPT
            !.authenticated_clients =
                With(@, client_id, [authenticated |-> FALSE,
                                    token_payload |-> None,
                                    permissions |-> {"read"}]),
            !.calls = With(@, client_id, [accepted |-> FALSE, ret |-> TRUE])]
    ELSE
    LET payload == verify_token(Val(token), t) IN
    IF ~IsNone(payload)
    THEN [a EXCEPT
            !.authenticated_clients =
                With(@, client_id, [authenticated |-> TRUE,
                                    token_payload |-> payload,
                                    permissions |-> {"read", "write", "admin"}]),
            !.calls = With(@, client_id, [accepted |-> TRUE, ret |-> TRUE])]
    ELSE [a EXCEPT
            !.calls = With(@, client_id, [accepted |-> FALSE, ret |-> FALSE])]

\* WebSocketAuth.has_permission
has_permission(a, client_id, permission) ==
    /\ client_id \in DOMAIN a.authenticated_clients
    /\ permission \in a.authenticated_clients[client_id].permissions

\* WebSocketAuth.is_authenticated
is_authenticated(a, client_id) ==
    /\ client_id \in DOMAIN a.authenticated_clients
    /\ a.authenticated_clients[client_id].authenticated

\* WebSocketAuth.revoke_client_auth
revoke_client_auth(a, client_id) ==
    IF client_id \in DOMAIN a.authenticated_clients
    THEN [a EXCEPT !.authenticated_clients = Without(@, client_id)]
    ELSE a

----------------------------------------------------------------------------
(* CachedDataSource (usage_analyzer/core/data_source.py)                   *)

\* CachedDataSource(source, cache_duration_seconds), scaled down from 30 s
CacheDuration == 2

\* No call made yet.
NoSourceCall ==
    [op |-> "none", time |-> 0, ret |-> None, called_source |-> FALSE,
     cached_data |-> None, cache_time |-> None, fetched |-> None]

\* CachedDataSource.__init__; fetched is the last fetch that returned data,
\* the data and the instant, since the object was made or its cache cleared;
\* last is the last call made on the object: its instant, what it returned,
\* whether it called the underlying source, and the stored data, cache time
\* and last fetch it found.
NewSource ==
    [cache_duration_seconds |-> CacheDuration, cached_data |-> None,
     cache_time |-> None, fetched |-> None, last |-> NoSourceCall]

\* The call that stores whatever the underlying source returned.
source_get_usage_data_store_none(src, source_data, t) ==
    LET valid == /\ ~IsNone(src.cached_data)
                 /\ ~IsNone(src.cache_time)
                 /\ t - Val(src.cache_time) < src.cache_duration_seconds
        call == [op |-> "get_usage_data", time |-> t, ret |-> None,
                 called_source |-> ~valid, cached_data |-> src.cached_data,
                 cache_time |-> src.cache_time, fetched |-> src.fetched]
    IN
    IF valid
    THEN [src EXCEPT !.last = [call EXCEPT !.ret = src.cached_data]]
    ELSE [src EXCEPT
             !.cached_data = source_data,
             !.cache_time = Some(t),
             !.fetched = IF ~IsNone(source_data)
                         THEN Some([data |-> source_data, time |-> t])
                         ELSE @,
             !.last = [call EXCEPT !.ret = source_data]]

\* CachedDataSource.get_usage_data, source_data being what the underlying
\* source would return
source_get_usage_data(src, source_data, t) ==
    LET valid == /\ ~IsNone(src.cached_data)
                 /\ ~IsNone(src.cache_time)
                 /\ t - Val(src.cache_time) < src.cache_duration_seconds
        call == [op |-> "get_usage_data", time |-> t, ret |-> None,
                 called_source |-> ~valid, cached_data |-> src.cached_data,
                 cache_time |-> src.cache_time, fetched |-> src.fetched]
    IN
    IF valid
    THEN [src EXCEPT !.last = [call EXCEPT !.ret = src.cached_data]]
    ELSE [src EXCEPT
             !.cached_data = IF ~IsNone(source_data) THEN source_data ELSE @,
             !.cache_time = IF ~IsNone(source_data) THEN Some(t) ELSE @,
             !.fetched = IF ~IsNone(source_data)
                         THEN Some([data |-> source_data, time |-> t])
                         ELSE @,
             !.last = [call EXCEPT !.ret = source_data]]

\* CachedDataSource.clear_cache
clear_cache(src) ==
    [src EXCEPT !.cached_data = None, !.cache_time = None, !.fetched = None,
                !.last = [NoSourceCall EXCEPT !.op = "clear_cache"]]

\* Every component as its constructor leaves it.
ComponentsNew ==
    /\ limiter = NewLimiter
    /\ cache = NewCache
    /\ bus = NewBus
    /\ manager = NewManager
    /\ usage_cache = NewUsageDataCache
    /\ auth = NewAuth
    /\ source = NewSource

\* The state in which a component is exercised on its own: program p, the
\* clock at 0, no cycle run, every component new.
ComponentInit(p) ==
    /\ prog = p
    /\ now = 0
    /\ notification_states = CleanStates
    /\ mgr_states = CleanStates
    /\ last_call = NoCall
    /\ args_plan = "pro"
    /\ token_limit = 0
    /\ usage_data = None
    /\ cycle = NoCycle
    /\ conc = NoConc
    /\ ComponentsNew

----------------------------------------------------------------------------
(* Bounds of the notification specification                                *)

MaxClock == 7

UnknownKind == "unknown_kind"

InitNotif ==
    /\ prog \in {"terminal", "service"}
    /\ now = 0
    /\ notification_states = CleanStates
    /\ mgr_states = CleanStates
    /\ last_call = NoCall
    /\ args_plan = "pro"
    /\ token_limit = 0
    /\ usage_data = None
    /\ cycle = NoCycle
    /\ conc = NoConc
    /\ ComponentsNew

\* One second passes.
Tick ==
    /\ now < MaxClock
    /\ now' = now + 1
    /\ UNCHANGED <<components, conc, prog, notification_states, mgr_states, last_call,
                   args_plan, token_limit, usage_data, cycle>>

\* The terminal monitor calls update_notification_state(kind, cond, now).
TerminalDebounce ==
    /\ prog = "terminal"
    /\ \E kind \in NotificationKinds, cond \in BOOLEAN :
          LET r == update_notification_state(notification_states, kind, cond, now) IN
          /\ notification_states' = r.states
          /\ last_call' = CallRecord(kind, cond, now, notification_states, r)
    /\ UNCHANGED <<components, conc, prog, now, mgr_states, args_plan, token_limit, usage_data, cycle>>

\* A caller of the manager calls should_show_notification(kind, cond, now).
ManagerDebounce ==
    /\ prog = "service"
    /\ \E kind \in NotificationKinds, cond \in BOOLEAN :
          LET r == should_show_notification(mgr_states, kind, cond, now) IN
          /\ mgr_states' = r.states
          /\ last_call' = CallRecord(kind, cond, now, mgr_states, r)
    /\ UNCHANGED <<components, conc, prog, now, notification_states, args_plan, token_limit, usage_data, cycle>>

\* should_show_notification on a kind the manager does not know: False, no change.
ManagerDebounceUnknown ==
    /\ prog = "service"
    /\ \E cond \in BOOLEAN :
          LET r == should_show_notification(mgr_states, UnknownKind, cond, now) IN
          /\ mgr_states' = r.states
          /\ last_call' = [NoCall EXCEPT !.op = "unknown", !.kind = UnknownKind,
                                         !.cond = cond, !.time = now, !.ret = r.ret]
    /\ UNCHANGED <<components, conc, prog, now, notification_states, args_plan, token_limit, usage_data, cycle>>

\* NotificationManager.reset_notification(kind)
ManagerReset ==
    /\ prog = "service"
    /\ \E kind \in NotificationKinds :
          /\ mgr_states' = reset_notification(mgr_states, kind)
          /\ last_call' = [NoCall EXCEPT !.op = "reset", !.kind = kind, !.time = now,
                                         !.pre = mgr_states[kind]]
    /\ UNCHANGED <<components, conc, prog, now, notification_states, args_plan, token_limit, usage_data, cycle>>

NextNotif ==
    \/ Tick
    \/ TerminalDebounce
    \/ ManagerDebounce
    \/ ManagerDebounceUnknown
    \/ ManagerReset

SpecNotif == InitNotif /\ [][NextNotif]_vars

\* The notification state of the program that runs.
CurStates == IF prog = "terminal" THEN notification_states ELSE mgr_states

----------------------------------------------------------------------------
(* C1: a debounce call with condition false on a triggered kind returns    *)
(* true and leaves the kind triggered with the same timestamp when         *)
(* current_time - timestamp < 5 seconds; when it is >= 5 seconds the call  *)
(* returns false and the kind becomes not triggered, timestamp cleared.    *)
C1_DebounceFalse ==
    (last_call.op = "call" /\ ~last_call.cond /\ last_call.pre.triggered) =>
        IF last_call.time - Val(last_call.pre.timestamp) < 5
        THEN /\ last_call.ret
             /\ last_call.post = last_call.pre
        ELSE /\ ~last_call.ret
             /\ last_call.post = [triggered |-> FALSE, timestamp |-> None]

\* A false call exactly 5 seconds after the kind was triggered has cleared it.
C1_Witness ==
    /\ last_call.op = "call" /\ ~last_call.cond /\ last_call.pre.triggered
    /\ last_call.time - Val(last_call.pre.timestamp) = 5
    /\ ~last_call.ret
    /\ ~CurStates[last_call.kind].triggered

(* C2: a debounce call with condition true returns true; a kind that was   *)
(* not triggered becomes triggered with timestamp = current_time, and a    *)
(* kind already triggered keeps its timestamp.                             *)
C2_DebounceTrue ==
    (last_call.op = "call" /\ last_call.cond) =>
        /\ last_call.ret
        /\ last_call.post.triggered
        /\ IF last_call.pre.triggered
           THEN last_call.post.timestamp = last_call.pre.timestamp
           ELSE last_call.post.timestamp = Some(last_call.time)

\* A true call on a kind triggered earlier: the old timestamp is kept.
C2_Witness ==
    /\ last_call.op = "call" /\ last_call.cond /\ last_call.pre.triggered
    /\ Val(last_call.pre.timestamp) < last_call.time
    /\ CurStates[last_call.kind].timestamp = last_call.pre.timestamp

\* The debounce of the program that runs, on a dictionary of states.
Debounce(states, kind, cond, time) ==
    IF prog = "terminal" THEN update_notification_state(states, kind, cond, time)
    ELSE should_show_notification(states, kind, cond, time)

\* The dictionary in which only `kind` has its state, every other kind being clean.
OnlyKind(states, kind) == [CleanStates EXCEPT ![kind] = states[kind]]

(* C11: a debounce call for one kind leaves the triggered flag and the     *)
(* timestamp of every other kind unchanged, and what it returns and does   *)
(* to its own kind is what it returns and does when every other kind is    *)
(* clean: it depends only on the kind's own state, the condition and       *)
(* current_time.                                                           *)
C11_KindsIndependent ==
    [][(last_call'.op = "call" /\ <<last_call, CurStates>>' # <<last_call, CurStates>>)
       => LET k == last_call'.kind
              alone == Debounce(OnlyKind(CurStates, k), k, last_call'.cond, last_call'.time)
          IN  /\ \A other \in NotificationKinds \ {k} : CurStates'[other] = CurStates[other]
              /\ last_call'.ret = alone.ret
              /\ CurStates'[k] = alone.states[k]]_vars

\* A call has cleared its kind while another kind stayed triggered.
C11_Witness ==
    /\ last_call.op = "call" /\ last_call.pre.triggered /\ ~last_call.post.triggered
    /\ \E other \in NotificationKinds \ {last_call.kind} : CurStates[other].triggered


----------------------------------------------------------------------------
(* SpecConc: two threads of one host call should_show_notification on the  *)
(* shared NotificationManager.  The method takes no lock, so a thread can  *)
(* be preempted between any two of its statements; each action below is    *)
(* one statement that reads or writes _states.                             *)

ConcKinds == {"switch_to_custom", "exceed_max_limit"}

Busy(i) == conc.t[i].pc \notin {"idle", "done"}

\* A thread enters should_show_notification(kind, cond, now): state = self._states[kind]
BeginCall(i) ==
    /\ conc.t[i].pc = "idle"
    /\ \E kind \in ConcKinds, cond \in BOOLEAN :
          conc' = [t |-> [conc.t EXCEPT ![i] = [IdleThread EXCEPT !.pc = "test",
                                                   !.kind = kind, !.cond = cond]],
                   base |-> IF \A j \in Threads : conc.t[j].pc = "idle"
                            THEN mgr_states ELSE conc.base]
    /\ UNCHANGED <<components, prog, now, notification_states, mgr_states, last_call,
                   args_plan, token_limit, usage_data, cycle>>

\* if condition_met: if not state["triggered"] ... / else: if state["triggered"] ...
TestTriggered(i) ==
    /\ conc.t[i].pc = "test"
    /\ LET th == conc.t[i]
           triggered == mgr_states[th.kind].triggered
           next == IF th.cond
                   THEN IF ~triggered THEN [th EXCEPT !.pc = "set_triggered"]
                        ELSE [th EXCEPT !.pc = "done", !.ret = TRUE]
                   ELSE IF triggered THEN [th EXCEPT !.pc = "elapsed"]
                        ELSE [th EXCEPT !.pc = "done", !.ret = FALSE]
       IN  conc' = [conc EXCEPT !.t[i] = next]
    /\ UNCHANGED <<components, prog, now, notification_states, mgr_states, last_call,
                   args_plan, token_limit, usage_data, cycle>>

\* state["triggered"] = True
SetTriggered(i) ==
    /\ conc.t[i].pc = "set_triggered"
    /\ mgr_states' = [mgr_states EXCEPT ![conc.t[i].kind].triggered = TRUE]
    /\ conc' = [conc EXCEPT !.t[i].pc = "set_timestamp"]
    /\ UNCHANGED <<components, prog, now, notification_states, last_call,
                   args_plan, token_limit, usage_data, cycle>>

\* state["timestamp"] = current_time; return True
SetTimestamp(i) ==
    /\ conc.t[i].pc = "set_timestamp"
    /\ mgr_states' = [mgr_states EXCEPT ![conc.t[i].kind].timestamp = Some(now)]
    /\ conc' = [conc EXCEPT !.t[i].pc = "done", !.t[i].ret = TRUE]
    /\ UNCHANGED <<components, prog, now, notification_states, last_call,
                   args_plan, token_limit, usage_data, cycle>>

\* elapsed = (current_time - state["timestamp"]).total_seconds(): a TypeError
\* when the timestamp is None; then the test elapsed >= NOTIFICATION_MIN_DURATION
ReadElapsed(i) ==
    /\ conc.t[i].pc = "elapsed"
    /\ LET th == conc.t[i]
           timestamp == mgr_states[th.kind].timestamp
           next == IF IsNone(timestamp)
                   THEN [th EXCEPT !.pc = "done", !.exc = "TypeError"]
                   ELSE IF now - Val(timestamp) >= MGR_NOTIFICATION_MIN_DURATION
                        THEN [th EXCEPT !.pc = "clear_triggered"]
                        ELSE [th EXCEPT !.pc = "done", !.ret = TRUE]
       IN  conc' = [conc EXCEPT !.t[i] = next]
    /\ UNCHANGED <<components, prog, now, notification_states, mgr_states, last_call,
                   args_plan, token_limit, usage_data, cycle>>

\* state["triggered"] = False
ClearTriggered(i) ==
    /\ conc.t[i].pc = "clear_triggered"
    /\ mgr_states' = [mgr_states EXCEPT ![conc.t[i].kind].triggered = FALSE]
    /\ conc' = [conc EXCEPT !.t[i].pc = "clear_timestamp"]
    /\ UNCHANGED <<components, prog, now, notification_states, last_call,
                   args_plan, token_limit, usage_data, cycle>>

\* state["timestamp"] = None; return False
ClearTimestamp(i) ==
    /\ conc.t[i].pc = "clear_timestamp"
    /\ mgr_states' = [mgr_states EXCEPT ![conc.t[i].kind].timestamp = None]
    /\ conc' = [conc EXCEPT !.t[i].pc = "done", !.t[i].ret = FALSE]
    /\ UNCHANGED <<components, prog, now, notification_states, last_call,
                   args_plan, token_limit, usage_data, cycle>>

\* Every call in progress has returned or raised.
CallsOver ==
    /\ \E i \in Threads : conc.t[i].pc = "done"
    /\ \A i \in Threads : ~Busy(i)

\* The callers go on; a later call starts from _states as it is now.
CallersGoOn ==
    /\ CallsOver
    /\ conc' = NoConc
    /\ UNCHANGED <<components, prog, now, notification_states, mgr_states, last_call,
                   args_plan, token_limit, usage_data, cycle>>

\* One second passes between calls.
ConcTick ==
    /\ \A i \in Threads : conc.t[i].pc = "idle"
    /\ now < MaxClock
    /\ now' = now + 1
    /\ UNCHANGED <<components, conc, prog, notification_states, mgr_states, last_call,
                   args_plan, token_limit, usage_data, cycle>>

InitConc ==
    /\ InitNotif
    /\ prog = "service"

NextConc ==
    \/ \E i \in Threads : BeginCall(i)
    \/ \E i \in Threads : TestTriggered(i)
    \/ \E i \in Threads : SetTriggered(i)
    \/ \E i \in Threads : SetTimestamp(i)
    \/ \E i \in Threads : ReadElapsed(i)
    \/ \E i \in Threads : ClearTriggered(i)
    \/ \E i \in Threads : ClearTimestamp(i)
    \/ CallersGoOn
    \/ ConcTick

SpecConc == InitConc /\ [][NextConc]_vars

\* The calls of the threads in `order`, one after the other from `states`:
\* every call returned what its thread returned, and _states ends as `final`.
RECURSIVE SequentialRun(_, _, _)
SequentialRun(order, states, final) ==
    IF order = <<>> THEN states = final
    ELSE LET th == conc.t[Head(order)]
             r == should_show_notification(states, th.kind, th.cond, now)
         IN  /\ r.ret = th.ret
             /\ SequentialRun(Tail(order), r.states, final)

Called == {i \in Threads : conc.t[i].pc = "done"}

Orders == {o \in UNION {[1..n -> Called] : n \in 1..2} :
              /\ Len(o) = Cardinality(Called)
              /\ \A i \in Called : \E j \in 1..Len(o) : o[j] = i}

(* C12: when two threads call the debounce function concurrently, neither  *)
(* call fails, and the values returned and the final state are those of    *)
(* some sequential order of the two calls.                                 *)
C12_CallsSerializable ==
    CallsOver =>
        /\ \A i \in Called : conc.t[i].exc = "none"
        /\ \E o \in Orders : SequentialRun(o, conc.base, mgr_states)

----------------------------------------------------------------------------
(* Evaluation cycles: the usage data and how it changes                    *)

\* The clock reading of the cycles, and the block times around it.
Now0 == 10 * HOUR
TwoHoursAgo == Now0 - 2 * HOUR
HalfHourAgo == Now0 - (HOUR \div 2)
NinetyMinAgo == Now0 - HOUR - (HOUR \div 2)

SeqsUpTo(S, n) == UNION {[1..k -> S] : k \in 0..n}

\* The fetch results: None, a dict without 'blocks', and the block lists.
Fetches(lists) ==
    {None, Some([blocks |-> None])} \cup {Some([blocks |-> Some(l)]) : l \in lists}

TerminalPlans == {"pro", "max5", "max20", CUSTOM}
ServicePlans == TerminalPlans \cup {"team"}

\* claude_monitor.main: the token_limit the run loop is started with.  For
\* custom_max it comes from one initial fetch, with the pro limit when that
\* fetch gives no data.
StartLimit(plan, d) ==
    IF plan = CUSTOM
    THEN IF HasBlocks(d) THEN get_token_limit(plan, Val(d).blocks)
                         ELSE get_token_limit("pro", None)
    ELSE get_token_limit(plan, None)

CycleInit(plans, fetches) ==
    /\ prog \in {"terminal", "service"}
    /\ now = Now0
    /\ notification_states = CleanStates
    /\ mgr_states = CleanStates
    /\ last_call = NoCall
    /\ cycle = NoCycle
    /\ conc = NoConc
    /\ ComponentsNew
    /\ usage_data \in fetches
    /\ args_plan \in (IF prog = "terminal" THEN plans \cap TerminalPlans ELSE {"pro"})
    /\ token_limit = (IF prog = "terminal" THEN StartLimit(args_plan, usage_data) ELSE 0)

\* The terminal monitor runs one iteration of its loop; an exception leaves
\* the loop and ends the program.
TerminalCycle ==
    /\ prog = "terminal"
    /\ cycle.status # "raised"
    /\ LET r == run_normal_mode(usage_data, now, args_plan, token_limit, notification_states) IN
          /\ cycle' = r.cycle
          /\ notification_states' = r.states
    /\ UNCHANGED <<components, conc, prog, now, mgr_states, last_call, args_plan, token_limit, usage_data>>

\* A caller asks the service for the status of a plan.
ServiceStatus(plans) ==
    /\ prog = "service"
    /\ \E plan \in plans : cycle' = get_current_status(plan, usage_data, now)
    /\ UNCHANGED <<components, conc, prog, now, notification_states, mgr_states, last_call,
                   args_plan, token_limit, usage_data>>

\* The last cycle has seen the usage data as it is now.
Seen == cycle.status # "none" /\ cycle.data = usage_data

Remove(l, i) == [j \in 1..(Len(l) - 1) |-> IF j < i THEN l[j] ELSE l[j + 1]]

\* The usage data changes between two cycles: the active session consumes
\* tokens.
TokensGrow(tokenValues) ==
    /\ Seen /\ HasBlocks(usage_data)
    /\ \E i \in 1..Len(BlocksOf(usage_data)), t \in tokenValues :
          /\ i = find_active_block(BlocksOf(usage_data), 1)
          /\ t > BlocksOf(usage_data)[i].totalTokens
          /\ usage_data' = Some([blocks |-> Some([BlocksOf(usage_data) EXCEPT ![i].totalTokens = t])])
    /\ UNCHANGED <<components, conc, prog, now, notification_states, mgr_states, last_call,
                   args_plan, token_limit, cycle>>

\* The usage data changes between two cycles: a block leaves the history.
BlockLeaves ==
    /\ Seen /\ HasBlocks(usage_data)
    /\ \E i \in 1..Len(BlocksOf(usage_data)) :
          usage_data' = Some([blocks |-> Some(Remove(BlocksOf(usage_data), i))])
    /\ UNCHANGED <<components, conc, prog, now, notification_states, mgr_states, last_call,
                   args_plan, token_limit, cycle>>

----------------------------------------------------------------------------
(* Spec: cycles over block lists that vary in tokens, isActive and isGap   *)

MaxBlocks == 2

LimitTokens == {0, 3000, 8000, 50000}

\* Sessions of every token count, active or closed, and gap blocks that
\* carry the largest count.
LimitBlocks ==
    {Block(Some(Utc(HalfHourAgo)), None, None, tokens, active, FALSE) :
        tokens \in LimitTokens, active \in BOOLEAN}
    \cup
    {Block(Some(Utc(HalfHourAgo)), None, None, 50000, active, TRUE) : active \in BOOLEAN}

LimitFetches == Fetches(SeqsUpTo(LimitBlocks, MaxBlocks))

Init == CycleInit(TerminalPlans, LimitFetches)

Next ==
    \/ TerminalCycle
    \/ ServiceStatus(ServicePlans)
    \/ TokensGrow(LimitTokens)
    \/ BlockLeaves

Spec == Init /\ [][Next]_vars

----------------------------------------------------------------------------
(* SpecBurn: cycles over block lists that vary in their place in time      *)

MaxBurnBlocks == 2

BurnTokens == {7000, 50000}
BurnStarts == {TwoHoursAgo, HalfHourAgo, Now0}
BurnEnds == {None, Some(Utc(NinetyMinAgo)), Some(Utc(HalfHourAgo))}

BurnBlocks ==
    {Block(Some(Utc(start)), None, None, tokens, TRUE, FALSE) :
        start \in BurnStarts, tokens \in BurnTokens}
    \cup
    {Block(Some(Utc(start)), None, actualEnd, tokens, FALSE, FALSE) :
        start \in BurnStarts, actualEnd \in BurnEnds, tokens \in BurnTokens}
    \cup
    {Block(Some(Utc(HalfHourAgo)), None, None, 50000, active, TRUE) : active \in BOOLEAN}

BurnFetches == Fetches(SeqsUpTo(BurnBlocks, MaxBurnBlocks))

InitBurn == CycleInit({"pro"}, BurnFetches)

NextBurn ==
    \/ TerminalCycle
    \/ ServiceStatus({"pro"})
    \/ TokensGrow(BurnTokens)
    \/ BlockLeaves

SpecBurn == InitBurn /\ [][NextBurn]_vars

----------------------------------------------------------------------------
(* SpecTime: cycles over blocks whose timestamps are missing, malformed,   *)
(* naive or carry an offset                                                *)

MaxTimeBlocks == 2

TimeStrings(t) == {None, Some(Malformed), Some(Naive(t)), Some(Utc(t)),
                   Some(Aware(t + HOUR, HOUR))}

TimeBlocks ==
    {Block(start, end, None, 3000, TRUE, FALSE) :
        start \in TimeStrings(HalfHourAgo), end \in TimeStrings(Now0 + HOUR)}
    \cup
    {Block(start, None, actualEnd, 3000, FALSE, FALSE) :
        start \in TimeStrings(TwoHoursAgo), actualEnd \in TimeStrings(HalfHourAgo)}

TimeFetches == Fetches(SeqsUpTo(TimeBlocks, MaxTimeBlocks))

InitTime == CycleInit({"pro"}, TimeFetches)

NextTime ==
    \/ TerminalCycle
    \/ ServiceStatus({"pro"})
    \/ TokensGrow({3000, 8000})
    \/ BlockLeaves

SpecTime == InitTime /\ [][NextTime]_vars

----------------------------------------------------------------------------
(* The claims about evaluation cycles                                      *)

Active == cycle.status = "active"
CycleBlocks == BlocksOf(cycle.data)

\* The burn rate as the specification states it: the tokens of every
\* qualifying block in proportion to its overlap with the last hour, over 60.
StatedEnd(b, t) ==
    IF b.isActive \/ IsNone(b.actualEndTime) THEN t
    ELSE Val(b.actualEndTime).t - Val(b.actualEndTime).off
StatedStart(b) == Val(b.startTime).t - Val(b.startTime).off
StatedOverlap(b, t) ==
    Max(0, Min(StatedEnd(b, t), t) - Max(StatedStart(b), t - 3600))
StatedShare(b, t) ==
    IF b.isGap \/ StatedOverlap(b, t) <= 0 \/ StatedEnd(b, t) - StatedStart(b) <= 0
    THEN RZero
    ELSE Rat(b.totalTokens * StatedOverlap(b, t), StatedEnd(b, t) - StatedStart(b))
RECURSIVE StatedSum(_, _, _)
StatedSum(blocks, i, t) ==
    IF i > Len(blocks) THEN RZero
    ELSE RAdd(StatedShare(blocks[i], t), StatedSum(blocks, i + 1, t))
StatedBurnRate(blocks, t) == RDiv(StatedSum(blocks, 1, t), RInt(60))

(* C3: the hourly burn rate of a cycle equals (sum over qualifying blocks  *)
(* of total_tokens * overlap / total_duration) / 60, in the terminal       *)
(* monitor and in the service.                                             *)
C3_BurnRateAsStated ==
    Active => cycle.burn_rate = StatedBurnRate(CycleBlocks, cycle.time)

\* The limit of the requested plan before the auto-switch step, as the
\* program that runs resolves it.
RequestedLimit ==
    IF prog = "terminal" THEN token_limit
    ELSE service_get_token_limit(cycle.plan,
             IF cycle.plan = CUSTOM THEN Some(CycleBlocks) ELSE None)

\* The custom limit the auto-switch step recomputes.
RecomputedLimit ==
    IF prog = "terminal" THEN get_token_limit(CUSTOM, Some(CycleBlocks))
    ELSE service_get_token_limit(CUSTOM, Some(CycleBlocks))

(* C4: in every cycle with an active block the effective token_limit after *)
(* the auto-switch step is >= the limit of the requested plan.             *)
C4_LimitNotBelowRequested ==
    Active => cycle.token_limit >= RequestedLimit

(* C5: from one cycle to the next, with the same requested plan and the    *)
(* same active block whose total_tokens did not decrease, the effective    *)
(* token_limit does not become smaller.                                    *)
C5_LimitNeverShrinks ==
    [][(/\ cycle.status = "active" /\ cycle'.status = "active"
        /\ cycle'.plan = cycle.plan
        /\ cycle'.active = cycle.active
        /\ cycle'.tokens_used >= cycle.tokens_used)
       => cycle'.token_limit >= cycle.token_limit]_vars

(* C6: the custom limit replaces the requested plan's limit, and the plan  *)
(* is reported as auto-switched, exactly when the requested plan is not    *)
(* custom, tokens_used exceeds its limit and the recomputed custom limit   *)
(* is strictly greater; otherwise the limit is unchanged and the flag is   *)
(* false.                                                                  *)
C6_AutoSwitchExactly ==
    Active =>
        IF /\ cycle.plan # CUSTOM
           /\ cycle.tokens_used > RequestedLimit
           /\ RecomputedLimit > RequestedLimit
        THEN cycle.token_limit = RecomputedLimit /\ cycle.plan_auto_switched
        ELSE cycle.token_limit = RequestedLimit /\ ~cycle.plan_auto_switched

\* The custom limit as the specification states it: the largest
\* total_tokens of the blocks that are neither gap nor active, the pro limit
\* when there is none.
Qualifying(blocks) == {i \in 1..Len(blocks) : ~blocks[i].isGap /\ ~blocks[i].isActive}
StatedCustomLimit(blocks, pro) ==
    IF Qualifying(blocks) = {} THEN pro
    ELSE CHOOSE m \in {blocks[i].totalTokens : i \in Qualifying(blocks)} :
             \A i \in Qualifying(blocks) : blocks[i].totalTokens <= m

(* C7: for the custom plan the resolved limit is the maximum total_tokens  *)
(* over exactly the blocks that are neither gap nor active, and the pro    *)
(* limit when no block qualifies: at the terminal's start and in a         *)
(* service cycle that asks for the custom plan.                            *)
C7_CustomLimitAsStated ==
    /\ (prog = "terminal" /\ args_plan = CUSTOM /\ cycle.status = "none"
            /\ HasBlocks(usage_data))
         => token_limit = StatedCustomLimit(BlocksOf(usage_data), 44000)
    /\ (prog = "service" /\ Active /\ cycle.plan = CUSTOM)
         => cycle.token_limit = StatedCustomLimit(CycleBlocks, 7000)

(* C8: predicted_end_time = now + tokens_left / burn_rate minutes when     *)
(* burn_rate > 0 and tokens_left > 0, and reset_time exactly otherwise;    *)
(* the will-run-out flag equals (predicted_end_time < reset_time).         *)
C8_Prediction ==
    Active =>
        /\ cycle.predicted_end_time =
              IF RGt(cycle.burn_rate, RZero) /\ cycle.tokens_left > 0
              THEN RAdd(RInt(cycle.time),
                        Rat(cycle.tokens_left * cycle.burn_rate.d * 60, cycle.burn_rate.n))
              ELSE RInt(cycle.reset_time)
        /\ cycle.tokens_will_run_out = RLt(cycle.predicted_end_time, RInt(cycle.reset_time))

\* A cycle that predicts depletion before the reset from a positive burn
\* rate and a positive remainder.
C8_Witness ==
    /\ Active
    /\ RGt(cycle.burn_rate, RZero) /\ cycle.tokens_left > 0
    /\ cycle.tokens_will_run_out
    /\ RGt(cycle.predicted_end_time, RInt(cycle.time))

(* C9: whatever startTime, endTime or actualEndTime is missing, malformed  *)
(* or timezone-naive, a cycle completes without raising.                   *)
C9_NeverRaises ==
    cycle.status # "raised"

(* C10: a fetch result of None and one that is a dict without 'blocks'     *)
(* give the same 'no data' outcome, a block list that is empty or has no   *)
(* active block gives 'no active session', and none of them raises.        *)
C10_NoDataNoSession ==
    cycle.status # "none" =>
        /\ ~HasBlocks(cycle.data) =>
              cycle = [NoCycle EXCEPT !.status = "no_data", !.data = cycle.data,
                                      !.plan = cycle.plan, !.out_plan = cycle.plan,
                                      !.time = cycle.time]
        /\ (HasBlocks(cycle.data) /\ \A i \in 1..Len(CycleBlocks) : ~CycleBlocks[i].isActive)
              => cycle.status = "no_active_session"

\* A cycle whose fetch returned a dict without 'blocks' ended as 'no data'.
C10_Witness ==
    /\ cycle.status = "no_data"
    /\ cycle.data = Some([blocks |-> None])

\* The burn rate function of the program that runs.
BurnRateOf(blocks, t) ==
    IF prog = "terminal" THEN calculate_hourly_burn_rate(blocks, t)
    ELSE service_calculate_hourly_burn_rate(blocks, t)

(* C13: for block lists with non-negative total_tokens the burn rate is    *)
(* >= 0, and it is exactly 0 when the block list is empty or every block   *)
(* in it is a gap, gap blocks that are marked active included.             *)
C13_BurnRateNonNegative ==
    /\ BurnRateOf(<<>>, now) = [exc |-> NoExc, rate |-> RZero]
    /\ Active =>
          /\ RLe(RZero, cycle.burn_rate)
          /\ (\A i \in 1..Len(CycleBlocks) : CycleBlocks[i].isGap) => cycle.burn_rate = RZero

\* A block that by the specification contributes nothing: a gap, one whose
\* effective end is earlier than now - 60 minutes, or one whose total
\* duration is <= 0.
ContributesNothing(b, t) ==
    \/ b.isGap
    \/ /\ ~IsNone(b.startTime)
       /\ \/ StatedEnd(b, t) < t - 3600
          \/ StatedEnd(b, t) - StatedStart(b) <= 0

(* C14: a block that is a gap, or whose effective end is earlier than      *)
(* now - 60 minutes, or whose total duration is <= 0 contributes exactly   *)
(* 0: the burn rate of a cycle equals the burn rate of its block list      *)
(* without that block.                                                     *)
C14_NullBlocksContributeNothing ==
    Active =>
        \A i \in 1..Len(CycleBlocks) :
            ContributesNothing(CycleBlocks[i], cycle.time) =>
                BurnRateOf(Remove(CycleBlocks, i), cycle.time).rate = cycle.burn_rate

----------------------------------------------------------------------------
(* SpecOverlap: terminal cycles over blocks that lie before, across, in    *)
(* and after the last hour                                                 *)

MaxOverlapBlocks == 2

HalfHourAhead == Now0 + (HOUR \div 2)

OverlapStarts == {TwoHoursAgo, HalfHourAgo, Now0, HalfHourAhead}
OverlapEnds == {None, Some(Utc(NinetyMinAgo)), Some(Utc(HalfHourAgo)), Some(Utc(HalfHourAhead))}

OverlapBlocks ==
    {Block(Some(Utc(start)), None, None, 7000, TRUE, FALSE) : start \in OverlapStarts}
    \cup
    {Block(Some(Utc(start)), None, actualEnd, 7000, FALSE, FALSE) :
        start \in OverlapStarts, actualEnd \in OverlapEnds}

OverlapFetches == Fetches(SeqsUpTo(OverlapBlocks, MaxOverlapBlocks))

InitOverlap ==
    /\ CycleInit({"pro"}, OverlapFetches)
    /\ prog = "terminal"

NextOverlap ==
    \/ TerminalCycle
    \/ TokensGrow({7000, 50000})
    \/ BlockLeaves

SpecOverlap == InitOverlap /\ [][NextOverlap]_vars

----------------------------------------------------------------------------
(* SpecZero: cycles over blocks of zero duration and of zero tokens, and   *)
(* direct calls of process_token_data and _get_usage_warning_level with a  *)
(* token_limit of 0                                                        *)

MaxZeroBlocks == 2

ZeroTokens == {0, 3000}
ZeroLimits == {0, 7000}

\* Active sessions that began half an hour ago or begin now, and a closed
\* session that ended the moment it began.
ZeroBlocks ==
    {Block(Some(Utc(start)), None, None, tokens, TRUE, FALSE) :
        start \in {HalfHourAgo, Now0}, tokens \in ZeroTokens}
    \cup
    {Block(Some(Utc(HalfHourAgo)), None, Some(Utc(HalfHourAgo)), 3000, FALSE, FALSE)}

ZeroFetches == Fetches(SeqsUpTo(ZeroBlocks, MaxZeroBlocks))

InitZero == CycleInit({"pro", CUSTOM}, ZeroFetches)

\* process_token_data(active_block, args, blocks, token_limit) called with
\* a given token_limit on a block list that holds the active block only
TokenDataCall ==
    /\ prog = "terminal"
    /\ \E used \in ZeroTokens, limit \in ZeroLimits :
          LET active_block == Block(Some(Utc(HalfHourAgo)), None, None, used, TRUE, FALSE)
              token_data == process_token_data(active_block, args_plan, <<active_block>>, limit)
          IN  cycle' = [NoCycle EXCEPT
                  !.status = "token_data", !.plan = args_plan, !.out_plan = args_plan,
                  !.data = usage_data, !.time = now,
                  !.tokens_used = token_data.tokens_used,
                  !.token_limit = token_data.token_limit,
                  !.original_limit = token_data.original_limit,
                  !.tokens_left = token_data.tokens_left,
                  !.usage_percentage = token_data.usage_percentage]
    /\ UNCHANGED <<components, conc, prog, now, notification_states, mgr_states, last_call,
                   args_plan, token_limit, usage_data>>

\* MonitorService._get_usage_warning_level(tokens_used, token_limit)
WarningLevelCall ==
    /\ prog = "service"
    /\ \E used \in ZeroTokens, limit \in ZeroLimits :
          cycle' = [NoCycle EXCEPT
                  !.status = "warning_level", !.data = usage_data, !.time = now,
                  !.tokens_used = used, !.token_limit = limit,
                  !.usage_warning_level = get_usage_warning_level(used, limit)]
    /\ UNCHANGED <<components, conc, prog, now, notification_states, mgr_states, last_call,
                   args_plan, token_limit, usage_data>>

NextZero ==
    \/ TerminalCycle
    \/ ServiceStatus({"pro", CUSTOM})
    \/ TokenDataCall
    \/ WarningLevelCall
    \/ TokensGrow(ZeroTokens)
    \/ BlockLeaves

SpecZero == InitZero /\ [][NextZero]_vars

\* A block whose total duration is 0: its effective end is its start.
ZeroDuration(b, t) == ~IsNone(b.startTime) /\ StatedEnd(b, t) = StatedStart(b)

(* C16: no cycle fails on a zero divisor: a block of zero duration adds 0  *)
(* to the burn rate, a burn rate of 0 gives predicted_end_time =           *)
(* reset_time, and a token_limit of 0 gives usage percentage 0 and warning *)
(* level 'safe' instead of an exception.                                   *)
C16_ZeroDivisorsGuarded ==
    /\ cycle.status # "raised"
    /\ Active =>
          /\ \A i \in 1..Len(CycleBlocks) :
                ZeroDuration(CycleBlocks[i], cycle.time) =>
                    BurnRateOf(Remove(CycleBlocks, i), cycle.time).rate = cycle.burn_rate
          /\ cycle.burn_rate = RZero => cycle.predicted_end_time = RInt(cycle.reset_time)
    /\ (cycle.status \in {"active", "token_data"} /\ cycle.token_limit = 0)
          => cycle.usage_percentage = RZero
    /\ (cycle.status \in {"active", "warning_level"} /\ cycle.token_limit = 0
            /\ prog = "service")
          => cycle.usage_warning_level = "safe"

\* The static table of the specification.
StatedPlanLimit(plan) ==
    CASE plan = "pro" -> 7000
      [] plan = "max5" -> 35000
      [] plan = "max20" -> 140000

(* C17: the limit resolver returns 7000 for plan pro, 35000 for max5 and   *)
(* 140000 for max20, in the terminal monitor (the limit main resolves for  *)
(* args.plan) and in the service (the limit a status reports for the       *)
(* requested plan).                                                        *)
C17_StaticPlanLimits ==
    /\ (prog = "terminal" /\ args_plan \in {"pro", "max5", "max20"})
          => token_limit = StatedPlanLimit(args_plan)
    /\ (prog = "service" /\ cycle.plan \in {"pro", "max5", "max20"})
          => /\ cycle.status = "no_active_session"
                    => cycle.token_limit = StatedPlanLimit(cycle.plan)
             /\ cycle.status = "active"
                    => cycle.original_limit = StatedPlanLimit(cycle.plan)

(* C18: for every plan name, known, custom or unknown, and every block     *)
(* list with non-negative integer total_tokens, the resolved token_limit   *)
(* is a strictly positive integer: the limit main resolves in the terminal *)
(* and the limit every cycle reports.                                      *)
C18_LimitPositive ==
    /\ prog = "terminal" => token_limit \in Nat \ {0}
    /\ cycle.status \in {"active", "no_active_session"} => cycle.token_limit \in Nat \ {0}

\* A service cycle for the custom plan over a history without tokens, and
\* one for a plan name the table does not know.
C18_Witness ==
    /\ prog = "service" /\ Active
    /\ \/ /\ cycle.plan = CUSTOM
          /\ \A i \in 1..Len(CycleBlocks) : CycleBlocks[i].totalTokens = 0
       \/ cycle.plan = "team"
    /\ cycle.token_limit = 7000

----------------------------------------------------------------------------
(* SpecReset: cycles over active blocks whose startTime and endTime are    *)
(* absent, malformed, naive, UTC or carry an offset                        *)

MaxResetBlocks == 2

ResetBlocks ==
    {Block(start, end, None, 3000, TRUE, FALSE) :
        start \in TimeStrings(HalfHourAgo), end \in TimeStrings(Now0 + HOUR)}
    \cup
    {Block(Some(Utc(TwoHoursAgo)), Some(Utc(Now0 + HOUR)), Some(Utc(NinetyMinAgo)), 3000, FALSE, FALSE)}

ResetFetches == Fetches(SeqsUpTo(ResetBlocks, MaxResetBlocks))

InitReset == CycleInit({"pro"}, ResetFetches)

NextReset ==
    \/ TerminalCycle
    \/ ServiceStatus({"pro"})
    \/ TokensGrow({3000, 8000})
    \/ BlockLeaves

SpecReset == InitReset /\ [][NextReset]_vars

\* The instant a timestamp string names, a naive one being read as UTC.
StatedInstant(ts) == IF ts.fmt = "naive" THEN ts.t ELSE ts.t - ts.off

(* C19: the reset time of a cycle is the active block's endTime when it is *)
(* present, and otherwise the active block's start time plus exactly 5     *)
(* hours, the start time being the current time when startTime is absent.  *)
C19_ResetTime ==
    Active =>
        LET b == CycleBlocks[cycle.active]
            start == IF IsNone(b.startTime) THEN cycle.time
                     ELSE StatedInstant(Val(b.startTime))
        IN  /\ cycle.start_time = start
            /\ cycle.reset_time = IF IsNone(b.endTime) THEN start + 18000
                                  ELSE StatedInstant(Val(b.endTime))

\* A cycle over an active block that began earlier and has no endTime: its
\* reset time is 5 hours after its start.
C19_Witness ==
    /\ Active
    /\ IsNone(CycleBlocks[cycle.active].endTime)
    /\ ~IsNone(CycleBlocks[cycle.active].startTime)
    /\ cycle.start_time < cycle.time
    /\ cycle.reset_time = cycle.start_time + 18000

(* C20: in a cycle where tokens_used does not exceed the effective         *)
(* token_limit, tokens_left = token_limit - tokens_used and                *)
(* usage_percentage = 100 * tokens_used / token_limit, tokens_used being   *)
(* the total_tokens of the active block only.                              *)
C20_TokensLeftAndPercentage ==
    Active =>
        /\ cycle.tokens_used = CycleBlocks[cycle.active].totalTokens
        /\ cycle.tokens_used <= cycle.token_limit =>
              /\ cycle.tokens_left = cycle.token_limit - cycle.tokens_used
              /\ cycle.usage_percentage = Rat(100 * cycle.tokens_used, cycle.token_limit)

\* 3000 tokens used against a limit of 44000 in the terminal or 7000 in the
\* service, next to a closed block that has tokens of its own.
C20_Witness ==
    /\ Active
    /\ cycle.tokens_used = 3000
    /\ \E i \in 1..Len(CycleBlocks) : ~CycleBlocks[i].isActive /\ CycleBlocks[i].totalTokens > 0
    /\ \/ prog = "service" /\ cycle.token_limit = 7000 /\ cycle.tokens_left = 4000
             /\ cycle.usage_percentage = Rat(300, 7)
       \/ prog = "terminal" /\ cycle.token_limit = 44000 /\ cycle.tokens_left = 41000

----------------------------------------------------------------------------
(* The active session among several active blocks                          *)

\* The first block of the list, in iteration order, that is active; 0 when
\* no block is.
FirstActive(blocks) ==
    IF \E i \in 1..Len(blocks) : blocks[i].isActive
    THEN CHOOSE i \in 1..Len(blocks) :
             blocks[i].isActive /\ \A j \in 1..(i - 1) : ~blocks[j].isActive
    ELSE 0

(* C21: when a snapshot holds several active blocks, the block a cycle     *)
(* takes as the active session is the first active block of the list:      *)
(* tokens_used, the start time and the reset time are those of that block, *)
(* in the terminal monitor and in the service.                             *)
C21_FirstActiveBlock ==
    /\ cycle.status = "no_active_session" => FirstActive(CycleBlocks) = 0
    /\ cycle.status = "raised" /\ cycle.active # 0 => cycle.active = FirstActive(CycleBlocks)
    /\ Active =>
          LET b == CycleBlocks[FirstActive(CycleBlocks)]
              start == IF IsNone(b.startTime) THEN cycle.time
                       ELSE StatedInstant(Val(b.startTime))
          IN  /\ cycle.active = FirstActive(CycleBlocks)
              /\ cycle.tokens_used = b.totalTokens
              /\ cycle.start_time = start
              /\ cycle.reset_time = IF IsNone(b.endTime) THEN start + 18000
                                    ELSE StatedInstant(Val(b.endTime))

\* A cycle over two active blocks that differ in tokens, start and end: the
\* values of the cycle are those of the first one.
C21_Witness ==
    /\ Active
    /\ Len(CycleBlocks) = 2
    /\ CycleBlocks[1].isActive /\ CycleBlocks[2].isActive
    /\ CycleBlocks[1].totalTokens = 8000 /\ CycleBlocks[2].totalTokens = 3000
    /\ IsNone(CycleBlocks[1].startTime) /\ ~IsNone(CycleBlocks[2].startTime)
    /\ IsNone(CycleBlocks[1].endTime) /\ ~IsNone(CycleBlocks[2].endTime)
    /\ cycle.tokens_used = 8000
    /\ cycle.start_time = cycle.time
    /\ cycle.reset_time = cycle.time + 18000

----------------------------------------------------------------------------
(* SpecResolve: direct calls of the two limit resolvers, with every plan   *)
(* name and with no blocks argument, the empty list or a block list        *)

UnknownPlans == {"team", "PRO"}
ResolvePlans == TerminalPlans \cup UnknownPlans

\* The blocks arguments a caller can hand over while the usage data is d:
\* none, or the block list of the data.
ResolveArgs(d) == {None} \cup (IF HasBlocks(d) THEN {Val(d).blocks} ELSE {})

MaxResolveBlocks == 2

ResolveTokens == {0, 8000, 50000}

\* Sessions of every token count, active or closed, and a closed gap block.
ResolveBlocks ==
    {Block(Some(Utc(HalfHourAgo)), None, None, tokens, active, FALSE) :
        tokens \in ResolveTokens, active \in BOOLEAN}
    \cup
    {Block(Some(Utc(HalfHourAgo)), None, None, 50000, FALSE, TRUE)}

ResolveFetches == Fetches(SeqsUpTo(ResolveBlocks, MaxResolveBlocks))

InitResolve == CycleInit(TerminalPlans, ResolveFetches)

\* get_token_limit(plan, blocks)
TerminalResolve ==
    /\ prog = "terminal"
    /\ \E plan \in ResolvePlans, blocks \in ResolveArgs(usage_data) :
          cycle' = [NoCycle EXCEPT
                  !.status = "limit", !.plan = plan, !.out_plan = plan,
                  !.data = usage_data, !.time = now, !.blocks_arg = blocks,
                  !.token_limit = get_token_limit(plan, blocks)]
    /\ UNCHANGED <<components, conc, prog, now, notification_states, mgr_states, last_call,
                   args_plan, token_limit, usage_data>>

\* MonitorService._get_token_limit(plan, blocks)
ServiceResolve ==
    /\ prog = "service"
    /\ \E plan \in ResolvePlans, blocks \in ResolveArgs(usage_data) :
          cycle' = [NoCycle EXCEPT
                  !.status = "limit", !.plan = plan, !.out_plan = plan,
                  !.data = usage_data, !.time = now, !.blocks_arg = blocks,
                  !.token_limit = service_get_token_limit(plan, blocks)]
    /\ UNCHANGED <<components, conc, prog, now, notification_states, mgr_states, last_call,
                   args_plan, token_limit, usage_data>>

NextResolve ==
    \/ TerminalResolve
    \/ ServiceResolve
    \/ TokensGrow(ResolveTokens)
    \/ BlockLeaves

SpecResolve == InitResolve /\ [][NextResolve]_vars

\* The resolver of the program that runs.
Resolver(plan, blocks) ==
    IF prog = "terminal" THEN get_token_limit(plan, blocks)
    ELSE service_get_token_limit(plan, blocks)

\* The entry the resolver's table holds for plan pro.
ProLimit == IF prog = "terminal" THEN TERMINAL_PRO ELSE SERVICE_PRO

(* C22: for every plan name outside pro, max5, max20 and custom_max the    *)
(* limit resolver returns the pro limit, its table's entry for pro, and    *)
(* does not raise, whatever blocks argument it is given.                   *)
C22_UnknownPlanIsPro ==
    (cycle.status = "limit" /\ cycle.plan \notin TerminalPlans)
        => cycle.token_limit = ProLimit

\* A call with an unknown plan name and a block list whose closed block has
\* 50000 tokens returns the pro entry.
C22_Witness ==
    /\ cycle.status = "limit"
    /\ cycle.plan \in UnknownPlans
    /\ Truthy(cycle.blocks_arg)
    /\ \E i \in 1..Len(Val(cycle.blocks_arg)) :
          LET b == Val(cycle.blocks_arg)[i] IN
          ~b.isActive /\ ~b.isGap /\ b.totalTokens = 50000
    /\ cycle.token_limit = ProLimit

\* The blocks arguments of the comparison: none, the empty list, and every
\* list of up to MaxResolveBlocks blocks.
AllBlockArgs == {None} \cup {Some(l) : l \in SeqsUpTo(ResolveBlocks, MaxResolveBlocks)}

(* C23: for the static plans pro, max5 and max20 the resolved limit does   *)
(* not depend on the blocks argument: the value a call returns is the      *)
(* value of the call with the same plan and any other blocks argument,     *)
(* None and the empty list among them.                                     *)
C23_StaticLimitIgnoresBlocks ==
    (cycle.status = "limit" /\ cycle.plan \in {"pro", "max5", "max20"})
        => \A other \in AllBlockArgs :
               cycle.token_limit = Resolver(cycle.plan, other)

\* A call for max5 with a list whose closed block has 50000 tokens returns
\* what the call without blocks returns.
C23_Witness ==
    /\ cycle.status = "limit"
    /\ cycle.plan = "max5"
    /\ Truthy(cycle.blocks_arg)
    /\ \E i \in 1..Len(Val(cycle.blocks_arg)) :
          LET b == Val(cycle.blocks_arg)[i] IN
          ~b.isActive /\ ~b.isGap /\ b.totalTokens = 50000
    /\ cycle.token_limit = Resolver("max5", None)
    /\ cycle.token_limit # 50000

----------------------------------------------------------------------------
(* SpecLimiter: requests of several clients passing RateLimitMiddleware    *)

MaxRequests == 5
MaxLimiterClock == 80

\* The seconds that pass between two requests.
LimiterSteps == {20, 40}

\* request.client: absent, or the address of one of two clients
Clients == {None, Some("10.0.0.1"), Some("10.0.0.2")}

InitLimiter == ComponentInit("web")

\* time.time() moves on.
LimiterTick ==
    /\ \E step \in LimiterSteps :
          /\ now + step <= MaxLimiterClock
          /\ now' = now + step
    /\ UNCHANGED <<monitor, components>>

\* A request of a client reaches the middleware.
DispatchRequest ==
    /\ Len(limiter.served) < MaxRequests
    /\ \E client \in Clients :
          LET r == dispatch(limiter.calls_per_minute, limiter.request_counts, client, now) IN
          limiter' = [limiter EXCEPT
              !.request_counts = r.request_counts,
              !.served = Append(@, [ip |-> ClientIp(client), time |-> now,
                                    forwarded |-> r.forwarded, exc |-> r.exc,
                                    status_code |-> r.status_code,
                                    remaining |-> r.remaining])]
    /\ UNCHANGED <<now, monitor, cache, bus, manager, usage_cache, auth, source>>

NextLimiter ==
    \/ LimiterTick
    \/ DispatchRequest

SpecLimiter == InitLimiter /\ [][NextLimiter]_vars

\* The requests of ip before the k-th one that were forwarded less than 60
\* seconds before time t.
ForwardedBefore(ip, k, t) ==
    {j \in 1..(k - 1) : /\ limiter.served[j].ip = ip
                        /\ limiter.served[j].forwarded
                        /\ t - limiter.served[j].time < 60}

\* The requests of ip forwarded in the 60 seconds that begin at time t.
ForwardedInWindow(ip, t) ==
    {j \in 1..Len(limiter.served) : /\ limiter.served[j].ip = ip
                                    /\ limiter.served[j].forwarded
                                    /\ t <= limiter.served[j].time
                                    /\ limiter.served[j].time < t + 60}

\* The number of requests request_counts holds for ip.
Counted(ip) ==
    IF ip \in DOMAIN limiter.request_counts
    THEN SumCounts(limiter.request_counts[ip], 1)
    ELSE 0

(* C24: RateLimitMiddleware forwards at most calls_per_minute requests per *)
(* client IP within any 60-second window: a request arriving when its IP   *)
(* already has calls_per_minute forwarded requests in the last 60 seconds  *)
(* is rejected with status 429, is not forwarded and is not counted; every *)
(* other request is forwarded; requests of other IPs do not affect the     *)
(* count.                                                                  *)
C24_RateLimit ==
    LET log == limiter.served IN
    /\ \A k \in 1..Len(log) :
          IF Cardinality(ForwardedBefore(log[k].ip, k, log[k].time)) >= limiter.calls_per_minute
          THEN ~log[k].forwarded /\ log[k].exc = "HTTPException" /\ log[k].status_code = 429
          ELSE log[k].forwarded /\ log[k].exc = NoExc
    /\ \A k \in 1..Len(log), j \in 1..Len(log) :
          Cardinality(ForwardedInWindow(log[k].ip, log[j].time)) <= limiter.calls_per_minute
    /\ log # <<>> =>
          \A k \in 1..Len(log) :
              Counted(log[k].ip) =
                  Cardinality(ForwardedBefore(log[k].ip, Len(log) + 1, log[Len(log)].time))

\* A client is rejected at its limit while another client's requests are
\* forwarded in between, and is forwarded again once 60 seconds have passed
\* since its first request.
C24_Witness ==
    LET log == limiter.served IN
    \E a, b, c, d \in 1..Len(log) :
        /\ a < b /\ b < c /\ c < d
        /\ log[a].ip = log[c].ip /\ log[c].ip = log[d].ip
        /\ log[b].ip # log[a].ip /\ log[b].forwarded
        /\ log[a].forwarded
        /\ ~log[c].forwarded /\ log[c].status_code = 429
        /\ log[d].forwarded /\ log[d].time = log[a].time + 60

----------------------------------------------------------------------------
(* SpecCache: calls on one IntelligentCache, with more keys than max_size  *)

MaxCacheClock == 2

CacheKeys == {"a", "b", "c"}
CacheValues == {Some("v")}
CacheTtls == {None}

\* What a compute_func does when it is called.
ComputeFuncs == {Returns(v) : v \in CacheValues} \cup {Raises}

InitCache == ComponentInit("core")

\* datetime.now() moves on by a second.
CacheTick ==
    /\ now < MaxCacheClock
    /\ now' = now + 1
    /\ UNCHANGED <<monitor, components>>

\* cache.set(key, value, ttl)
CacheSet ==
    /\ \E key \in CacheKeys, value \in CacheValues, ttl \in CacheTtls :
          cache' = [cache EXCEPT
              !.entries = cache_set(cache.default_ttl, cache.max_size, cache.entries,
                                    key, value, ttl, now),
              !.last = [NoCacheCall EXCEPT !.op = "set", !.key = key,
                                           !.before = cache.entries]]
    /\ UNCHANGED <<now, monitor, limiter, bus, manager, usage_cache, auth, source>>

\* cache.get(key)
CacheGet ==
    /\ \E key \in CacheKeys :
          LET r == cache_get(cache.entries, key, now) IN
          cache' = [cache EXCEPT
              !.entries = r.entries,
              !.last = [NoCacheCall EXCEPT !.op = "get", !.key = key,
                                           !.before = cache.entries, !.ret = r.ret]]
    /\ UNCHANGED <<now, monitor, limiter, bus, manager, usage_cache, auth, source>>

\* cache.get_or_compute(key, compute_func)
CacheGetOrCompute ==
    /\ \E key \in CacheKeys, compute_func \in ComputeFuncs :
          LET r == get_or_compute(cache.default_ttl, cache.max_size, cache.entries,
                                  key, compute_func, None, now)
          IN
          cache' = [cache EXCEPT
              !.entries = r.entries,
              !.last = [NoCacheCall EXCEPT !.op = "get_or_compute", !.key = key,
                                           !.before = cache.entries, !.ret = r.ret,
                                           !.exc = r.exc, !.computed = r.computed]]
    /\ UNCHANGED <<now, monitor, limiter, bus, manager, usage_cache, auth, source>>

\* cache.refresh_if_needed(key, compute_func)
CacheRefresh ==
    /\ \E key \in CacheKeys, compute_func \in ComputeFuncs :
          LET r == refresh_if_needed(cache.entries, key, compute_func,
                                     REFRESH_THRESHOLD, now)
          IN
          cache' = [cache EXCEPT
              !.entries = r.entries,
              !.last = [NoCacheCall EXCEPT !.op = "refresh_if_needed", !.key = key,
                                           !.before = cache.entries, !.ret = r.ret,
                                           !.computed = r.computed]]
    /\ UNCHANGED <<now, monitor, limiter, bus, manager, usage_cache, auth, source>>

\* cache.invalidate(key)
CacheInvalidate ==
    /\ \E key \in CacheKeys :
          LET r == cache_invalidate(cache.entries, key) IN
          cache' = [cache EXCEPT
              !.entries = r.entries,
              !.last = [NoCacheCall EXCEPT !.op = "invalidate", !.key = key,
                                           !.before = cache.entries,
                                           !.ret = Some(r.ret)]]
    /\ UNCHANGED <<now, monitor, limiter, bus, manager, usage_cache, auth, source>>

\* cache.clear()
CacheClear ==
    /\ cache' = [cache EXCEPT
              !.entries = <<>>,
              !.last = [NoCacheCall EXCEPT !.op = "clear", !.before = cache.entries]]
    /\ UNCHANGED <<now, monitor, limiter, bus, manager, usage_cache, auth, source>>

NextCache ==
    \/ CacheTick
    \/ CacheSet
    \/ CacheGet
    \/ CacheGetOrCompute
    \/ CacheRefresh
    \/ CacheInvalidate
    \/ CacheClear

SpecCache == InitCache /\ [][NextCache]_vars

\* The keys stored in a dict.
KeysOf(entries) == {entries[i].key : i \in 1..Len(entries)}

\* The last call was a set of a key the cache did not hold, made when the
\* cache held max_size entries.
SetAtCapacity ==
    /\ cache.last.op = "set"
    /\ cache.last.key \notin KeysOf(cache.last.before)
    /\ Len(cache.last.before) >= cache.max_size

(* C25: after any sequence of set, get, get_or_compute, refresh_if_needed, *)
(* invalidate and clear on an IntelligentCache with max_size >= 1 the      *)
(* number of stored entries never exceeds max_size; a set of a new key at  *)
(* capacity removes exactly one entry, one whose last_accessed time is the *)
(* oldest, and stores the new key.                                         *)
C25_CacheBounded ==
    /\ Len(cache.entries) <= cache.max_size
    /\ Cardinality(KeysOf(cache.entries)) = Len(cache.entries)
    /\ SetAtCapacity =>
          \E i \in 1..Len(cache.last.before) :
              /\ \A j \in 1..Len(cache.last.before) :
                     cache.last.before[i].last_accessed <= cache.last.before[j].last_accessed
              /\ KeysOf(cache.entries) =
                     (KeysOf(cache.last.before) \ {cache.last.before[i].key})
                         \cup {cache.last.key}
              /\ \A j \in 1..Len(cache.last.before) :
                     j # i => \E k \in 1..Len(cache.entries) :
                                  cache.entries[k] = cache.last.before[j]

\* A set of a new key into a full cache whose first entry, stored no later
\* than the second, was read after it: the second entry is the one removed.
C25_Witness ==
    /\ SetAtCapacity
    /\ Len(cache.last.before) = cache.max_size
    /\ cache.last.before[1].last_accessed > cache.last.before[2].last_accessed
    /\ cache.last.before[1].created_at <= cache.last.before[2].created_at
    /\ cache.last.before[1].key \in KeysOf(cache.entries)
    /\ cache.last.before[2].key \notin KeysOf(cache.entries)

----------------------------------------------------------------------------
(* SpecBus: subscriptions to one EventBus and the events emitted on it     *)

\* Two of the EventType values, and two subscribers; the callback of the
\* second one raises on every event.
EventTypes == {"usage_updated", "plan_switched"}
Subscribers == {"s1", "s2"}
RaisingSubscribers == {"s2"}

InitBus == ComponentInit("core")

\* bus.subscribe(event_type, subscriber) with one type or a list of types
BusSubscribe ==
    /\ \E subscriber \in Subscribers :
          \/ \E et \in EventTypes :
                bus' = [bus EXCEPT
                    !.subscribers = subscribe_single(bus.subscribers, et, subscriber)]
          \/ \E et1 \in EventTypes, et2 \in EventTypes :
                bus' = [bus EXCEPT
                    !.subscribers = subscribe_list(bus.subscribers, <<et1, et2>>, 1,
                                                   subscriber)]
    /\ UNCHANGED <<now, monitor, limiter, cache, manager, usage_cache, auth, source>>

\* bus.subscribe_all(subscriber)
BusSubscribeAll ==
    /\ \E subscriber \in Subscribers :
          bus' = [bus EXCEPT
              !.all_subscribers = subscribe_all(bus.all_subscribers, subscriber)]
    /\ UNCHANGED <<now, monitor, limiter, cache, manager, usage_cache, auth, source>>

\* bus.unsubscribe(subscriber, event_type)
BusUnsubscribe ==
    /\ \E subscriber \in Subscribers, event_type \in {None} \cup {Some(et) : et \in EventTypes} :
          bus' = [bus EXCEPT
              !.subscribers = unsubscribe_types(bus.subscribers, subscriber, event_type),
              !.all_subscribers = unsubscribe_all(bus.all_subscribers, subscriber,
                                                  event_type)]
    /\ UNCHANGED <<now, monitor, limiter, cache, manager, usage_cache, auth, source>>

\* await bus.emit(event): one handle_event task per element of the list,
\* run in order; a callback that raises is caught by
\* CallableSubscriber.handle_event.
BusEmit ==
    /\ \E event_type \in EventTypes :
          LET subscribers == emit_subscribers(bus.subscribers, bus.all_subscribers,
                                              event_type)
          IN
          bus' = [bus EXCEPT
              !.event_history = emit_history(bus.event_history, bus.max_history,
                                             event_type),
              !.last = [event_type |-> event_type,
                        specific |-> IF event_type \in DOMAIN bus.subscribers
                                     THEN bus.subscribers[event_type] ELSE <<>>,
                        all_subscribers |-> bus.all_subscribers,
                        handled |-> [i \in 1..Len(subscribers) |->
                                        [subscriber |-> subscribers[i],
                                         raised |-> subscribers[i] \in RaisingSubscribers]]]]
    /\ UNCHANGED <<now, monitor, limiter, cache, manager, usage_cache, auth, source>>

\* bus.clear_history()
BusClearHistory ==
    /\ bus' = [bus EXCEPT !.event_history = <<>>]
    /\ UNCHANGED <<now, monitor, limiter, cache, manager, usage_cache, auth, source>>

NextBus ==
    \/ BusSubscribe
    \/ BusSubscribeAll
    \/ BusUnsubscribe
    \/ BusEmit
    \/ BusClearHistory

SpecBus == InitBus /\ [][NextBus]_vars

\* The subscribers the last emit found registered for its event's type or
\* for all events.
Registered ==
    {x \in Subscribers :
        InList(bus.last.specific, x) \/ InList(bus.last.all_subscribers, x)}

\* How many handle_event calls the last emit made on subscriber x.
Deliveries(x) ==
    Cardinality({i \in 1..Len(bus.last.handled) : bus.last.handled[i].subscriber = x})

(* C26: emit delivers the event to every subscriber registered for the     *)
(* event's type or through subscribe_all exactly once, also to a           *)
(* subscriber registered both ways and also when the callback of another   *)
(* subscriber raises, and to no other subscriber.                          *)
C26_DeliveredOnce ==
    bus.last.event_type # "" =>
        \A x \in Subscribers :
            Deliveries(x) = IF x \in Registered THEN 1 ELSE 0

----------------------------------------------------------------------------
(* SpecDisplay: debounce calls at non-decreasing times, without            *)
(* reset_notification                                                      *)

MaxDisplayClock == 6

DisplayKinds == {"switch_to_custom", "exceed_max_limit"}

\* One second passes.
DisplayTick ==
    /\ now < MaxDisplayClock
    /\ now' = now + 1
    /\ UNCHANGED <<monitor, components>>

\* The terminal monitor calls update_notification_state(kind, cond, now).
TerminalShow ==
    /\ prog = "terminal"
    /\ \E kind \in DisplayKinds, cond \in BOOLEAN :
          LET r == update_notification_state(notification_states, kind, cond, now) IN
          /\ notification_states' = r.states
          /\ last_call' = CallRecord(kind, cond, now, notification_states, r)
    /\ UNCHANGED <<components, conc, prog, now, mgr_states, args_plan, token_limit,
                   usage_data, cycle>>

\* A caller of the manager calls should_show_notification(kind, cond, now).
ManagerShow ==
    /\ prog = "service"
    /\ \E kind \in DisplayKinds, cond \in BOOLEAN :
          LET r == should_show_notification(mgr_states, kind, cond, now) IN
          /\ mgr_states' = r.states
          /\ last_call' = CallRecord(kind, cond, now, mgr_states, r)
    /\ UNCHANGED <<components, conc, prog, now, notification_states, args_plan,
                   token_limit, usage_data, cycle>>

NextDisplay ==
    \/ DisplayTick
    \/ TerminalShow
    \/ ManagerShow

SpecDisplay == InitNotif /\ [][NextDisplay]_vars

\* The last call was made for kind k.
CallOn(k) == last_call.op = "call" /\ last_call.kind = k

\* The last call activated kind k at time t0: it returned true directly
\* after k was not triggered.
Activated(k, t0) ==
    /\ CallOn(k)
    /\ ~last_call.pre.triggered
    /\ last_call.ret
    /\ last_call.time = t0

(* C27: minimum display time.  With non-decreasing call times and no       *)
(* manual reset, once a debounce call for a kind returns true directly     *)
(* after the kind was not triggered (activation at time t0), every later   *)
(* call for that kind with current_time < t0 + 5 seconds returns true,     *)
(* whatever its condition is.                                              *)
C27_MinimumDisplayTime ==
    \A k \in DisplayKinds, t0 \in 0..MaxDisplayClock :
        [](Activated(k, t0) =>
              []((CallOn(k) /\ last_call.time < t0 + 5) => last_call.ret))

\* A call with a false condition 4 seconds after the activation of its
\* kind returns true.
C27_Witness ==
    /\ last_call.op = "call"
    /\ ~last_call.cond
    /\ last_call.pre.triggered
    /\ last_call.time = Val(last_call.pre.timestamp) + 4
    /\ last_call.ret

----------------------------------------------------------------------------
(* SpecManager: the coroutines of one ConnectionManager on the event loop  *)

\* The notification tasks that may wait to be run at one time.
MaxTasks == 2

InitManager == ComponentInit("web")

Connected == DOMAIN manager.active_connections

\* websocket_usage_endpoint calls connect for a new client
ManagerConnect ==
    /\ \E c \in ManagerClients :
          /\ manager.running[c] = "idle"
          /\ c \notin Connected
          /\ manager' = connect(manager, c)
    /\ UNCHANGED <<now, monitor, limiter, cache, bus, usage_cache, auth, source>>

\* accept() returns: connect runs on to the welcome message's send_text
ManagerAccepted ==
    /\ \E c \in ManagerClients :
          /\ manager.running[c] = "accept"
          /\ manager' = connect_accepted(manager, c)
    /\ UNCHANGED <<now, monitor, limiter, cache, bus, usage_cache, auth, source>>

\* the welcome message's send_text returns or raises: connect runs to its end
ManagerWelcomed ==
    /\ \E c \in ManagerClients, ok \in BOOLEAN :
          /\ manager.running[c] = "welcome"
          /\ manager' = connect_welcomed(manager, c, ok)
    /\ UNCHANGED <<now, monitor, limiter, cache, bus, usage_cache, auth, source>>

\* websocket_usage_endpoint, whose connect has returned, sees the client
\* leave and calls disconnect
ManagerDisconnect ==
    /\ \E c \in ManagerClients :
          /\ manager.running[c] = "idle"
          /\ manager' = disconnect(manager, c)
    /\ UNCHANGED <<now, monitor, limiter, cache, bus, usage_cache, auth, source>>

\* handle_reconnection is called with a client id and a new websocket
ManagerReconnect ==
    /\ \E c \in ManagerClients :
          /\ manager.running[c] = "idle"
          /\ c \in DOMAIN manager.connection_metadata =>
                get_reconnection_count(manager.connection_metadata[c])
                    < MaxReconnections
          /\ manager' = handle_reconnection(manager, c)
    /\ UNCHANGED <<now, monitor, limiter, cache, bus, usage_cache, auth, source>>

\* the old websocket's close() returns or raises: handle_reconnection runs on
\* to the confirmation's send_text
ManagerReconnectClosed ==
    /\ \E c \in ManagerClients :
          /\ manager.running[c] = "closing"
          /\ manager' = reconnection_updated(manager, c)
    /\ UNCHANGED <<now, monitor, limiter, cache, bus, usage_cache, auth, source>>

\* the confirmation's send_text returns or raises: handle_reconnection runs
\* to its end
ManagerReconnectConfirmed ==
    /\ \E c \in ManagerClients, ok \in BOOLEAN :
          /\ manager.running[c] = "confirm"
          /\ manager' = reconnection_confirmed(manager, c, ok)
    /\ UNCHANGED <<now, monitor, limiter, cache, bus, usage_cache, auth, source>>

\* graceful_disconnect(client_id) for a connected client
ManagerGracefulDisconnect ==
    /\ \E c \in Connected :
          /\ Len(manager.tasks) < MaxTasks
          /\ manager' = graceful_disconnect(manager, c)
    /\ UNCHANGED <<now, monitor, limiter, cache, bus, usage_cache, auth, source>>

\* graceful_shutdown is called: with clients connected it broadcasts
\* server_shutdown, the sends taken in one step, and sleeps; with none it
\* runs to its end
ManagerShutdown ==
    /\ manager.shutdown = "idle"
    /\ IF Connected = {}
       THEN manager' = graceful_shutdown_close(manager)
       ELSE \E failed \in SUBSET Connected :
               manager' = [broadcast(manager, "server_shutdown", failed)
                              EXCEPT !.shutdown = "sleep"]
    /\ UNCHANGED <<now, monitor, limiter, cache, bus, usage_cache, auth, source>>

\* the sleep of graceful_shutdown returns: it runs to its end
ManagerShutdownClose ==
    /\ manager.shutdown = "sleep"
    /\ Len(manager.tasks) + Cardinality(Connected) <= MaxTasks
    /\ manager' = graceful_shutdown_close(manager)
    /\ UNCHANGED <<now, monitor, limiter, cache, bus, usage_cache, auth, source>>

\* the event loop runs the oldest notification task
ManagerRunTask ==
    /\ manager.tasks # <<>>
    /\ \E ok \in BOOLEAN :
          manager' = [send_personal_message(manager, "disconnect_notification",
                                            Head(manager.tasks), ok)
                         EXCEPT !.tasks = Tail(@)]
    /\ UNCHANGED <<now, monitor, limiter, cache, bus, usage_cache, auth, source>>

NextManager ==
    \/ ManagerConnect
    \/ ManagerAccepted
    \/ ManagerWelcomed
    \/ ManagerDisconnect
    \/ ManagerReconnect
    \/ ManagerReconnectClosed
    \/ ManagerReconnectConfirmed
    \/ ManagerGracefulDisconnect
    \/ ManagerShutdown
    \/ ManagerShutdownClose
    \/ ManagerRunTask

SpecManager == InitManager /\ [][NextManager]_vars

\* No connect or handle_reconnection is suspended and graceful_shutdown is
\* not sleeping (disconnect never suspends).
NoOperationInProgress ==
    /\ \A c \in ManagerClients : manager.running[c] = "idle"
    /\ manager.shutdown # "sleep"

\* C28: whenever no connect, handle_reconnection or disconnect is in
\* progress, the broadcast loop is running (_is_broadcasting is true) if and
\* only if at least one client is connected.
C28_BroadcastingIffConnected ==
    (prog = "web" /\ NoOperationInProgress)
        => (manager.is_broadcasting <=> Connected # {})

\* The client's notification task is created and not yet run.
NotificationPending(c) ==
    \E i \in 1..Len(manager.tasks) : manager.tasks[i] = c

\* C30: a client whose connection graceful_disconnect removed, in
\* graceful_shutdown or on its own, has been sent disconnect_notification on
\* that connection, at the latest when the task sending it has run.
C30_NotifiedOnGracefulDisconnect ==
    prog = "web" =>
        \A c \in manager.graceful :
            NotificationPending(c)
                \/ "disconnect_notification" \in manager.received[c]

----------------------------------------------------------------------------
(* The tokens left of a cycle                                              *)

\* C29: the tokens_left an evaluation cycle reports is never negative, in
\* the terminal monitor and in the service, also when tokens_used exceeds
\* the effective token_limit.
C29_TokensLeftNotNegative ==
    Active => cycle.tokens_left >= 0

\* A terminal cycle whose tokens_used exceeds the limit still in force after
\* the switch, reporting 0 tokens left.
C29_Witness ==
    /\ Active
    /\ prog = "terminal"
    /\ cycle.tokens_used > cycle.token_limit
    /\ cycle.tokens_left = 0

----------------------------------------------------------------------------
(* SpecCompute: get_or_compute on one IntelligentCache, with compute       *)
(* functions that return a value, return None or raise                     *)

ComputeKeys == {"a", "b"}
ComputeResults == {Returns(None), Returns(Some("v")), Returns(Some("w")), Raises}

InitCompute == ComponentInit("core")

\* cache.get_or_compute(key, compute_func), called directly or by the
\* wrapper of with_cache, whose key stands for the function and arguments
ComputeCall ==
    /\ \E key \in ComputeKeys, compute_func \in ComputeResults :
          LET r == get_or_compute(cache.default_ttl, cache.max_size, cache.entries,
                                  key, compute_func, None, now)
          IN
          cache' = [cache EXCEPT
              !.entries = r.entries,
              !.last = [NoCacheCall EXCEPT !.op = "get_or_compute", !.key = key,
                                           !.before = cache.entries, !.ret = r.ret,
                                           !.exc = r.exc, !.computed = r.computed]]
    /\ UNCHANGED <<now, monitor, limiter, bus, manager, usage_cache, auth, source>>

NextCompute ==
    \/ CacheTick
    \/ ComputeCall
    \/ CacheInvalidate

SpecCompute == InitCompute /\ [][NextCompute]_vars

\* The last call was a get_or_compute of a key for which the cache held an
\* entry that is unexpired even now, so that it was when the call was made.
ComputeOnUnexpired ==
    /\ cache.last.op = "get_or_compute"
    /\ KeyIndex(cache.last.before, cache.last.key) # 0
    /\ ~is_expired(cache.last.before[KeyIndex(cache.last.before, cache.last.key)], now)

\* C31: get_or_compute calls compute_func only when the cache holds no
\* unexpired entry for the key; while one exists, whatever value it holds,
\* None included, the call returns the stored value and does not call
\* compute_func.
C31_ComputeOnlyWhenMissing ==
    ComputeOnUnexpired =>
        /\ ~cache.last.computed
        /\ cache.last.exc = NoExc
        /\ cache.last.ret =
               cache.last.before[KeyIndex(cache.last.before, cache.last.key)].data

----------------------------------------------------------------------------
(* SpecUsage: calls on one UsageDataCache while the usage data changes     *)

MaxUsageClock == 4

\* Sessions with no, some and more tokens, active or closed.
UsageBlocks ==
    {Block(Some(Utc(0)), None, None, tokens, active, FALSE) :
        tokens \in {0, 100, 250}, active \in BOOLEAN}

\* What fetch_func returns: None, a dict without blocks, or a dict with up
\* to two blocks.
UsageFetches ==
    {None, Some([blocks |-> None])}
        \cup {Some([blocks |-> Some(bs)]) :
                 bs \in {<<>>} \cup {<<b>> : b \in UsageBlocks}
                        \cup {<<b1, b2>> : b1 \in UsageBlocks, b2 \in UsageBlocks}}

InitUsage == ComponentInit("core")

\* datetime.now() moves on by a second.
UsageTick ==
    /\ now < MaxUsageClock
    /\ now' = now + 1
    /\ UNCHANGED <<monitor, components>>

\* usage_cache.get_usage_data(fetch_func)
UsageGet ==
    /\ \E fetch_func \in UsageFetches :
          usage_cache' = usage_get_usage_data(usage_cache, fetch_func, now)
    /\ UNCHANGED <<now, monitor, limiter, cache, bus, manager, auth, source>>

\* usage_cache.invalidate()
UsageInvalidate ==
    /\ usage_cache' = usage_invalidate(usage_cache)
    /\ UNCHANGED <<now, monitor, limiter, cache, bus, manager, auth, source>>

NextUsage ==
    \/ UsageTick
    \/ UsageGet
    \/ UsageInvalidate

SpecUsage == InitUsage /\ [][NextUsage]_vars

\* The last call was a get_usage_data that found an entry which is
\* unexpired even now, so that it was when the call was made.
UsageGetOnUnexpired ==
    /\ usage_cache.last.op = "get_usage_data"
    /\ usage_cache.last.before # <<>>
    /\ ~is_expired(usage_cache.last.before[1], now)

----------------------------------------------------------------------------
(* SpecBroadcast: the broadcast loop serving clients that select plans     *)

BroadcastPlans == {"pro", "max5"}

InitBroadcast == ComponentInit("web")

\* The _broadcast_loop task is alive.
LoopRunning == manager.is_broadcasting /\ manager.broadcast_task = "running"

\* a connected client sends {"type": "set_plan", "data": {"plan": plan}}
ManagerSetPlan ==
    /\ \E c \in Connected, plan \in BroadcastPlans, ok \in BOOLEAN :
          /\ manager.running[c] = "idle"
          /\ manager' = set_plan(manager, c, plan, ok)
    /\ UNCHANGED <<now, monitor, limiter, cache, bus, usage_cache, auth, source>>

\* the loop starts an iteration: it collects the plans of the clients
LoopCollect ==
    /\ LoopRunning
    /\ manager.loop.pc = "top"
    /\ manager' = [manager EXCEPT
                      !.loop = [pc |-> "plans", plans |-> broadcast_loop_plans(manager)]]
    /\ UNCHANGED <<now, monitor, limiter, cache, bus, usage_cache, auth, source>>

\* the loop serves one of the plans collected
LoopUpdate ==
    /\ LoopRunning
    /\ manager.loop.pc = "plans"
    /\ \E plan \in manager.loop.plans, status_ok \in BOOLEAN, failed \in SUBSET Connected :
          manager' = broadcast_usage_update(manager, plan, status_ok, failed)
    /\ UNCHANGED <<now, monitor, limiter, cache, bus, usage_cache, auth, source>>

\* the loop, its plans served, sends the heartbeat and sleeps
LoopHeartbeat ==
    /\ LoopRunning
    /\ manager.loop.pc = "plans"
    /\ manager.loop.plans = {}
    /\ \E failed \in SUBSET Connected :
          manager' = broadcast_heartbeat(manager, failed)
    /\ UNCHANGED <<now, monitor, limiter, cache, bus, usage_cache, auth, source>>

NextBroadcast ==
    \/ ManagerConnect
    \/ ManagerAccepted
    \/ ManagerWelcomed
    \/ ManagerDisconnect
    \/ ManagerSetPlan
    \/ LoopCollect
    \/ LoopUpdate
    \/ LoopHeartbeat

SpecBroadcast == InitBroadcast /\ [][NextBroadcast]_vars

\* C33: a usage_update computed for plan P is delivered only to clients
\* whose selected plan is P.
C33_UpdateOnlyToItsPlan ==
    manager.last_broadcast.type = "usage_update" =>
        \A c \in DOMAIN manager.last_broadcast.delivered :
            manager.last_broadcast.delivered[c] = manager.last_broadcast.plan

----------------------------------------------------------------------------
(* SpecAuth: clients authenticating with and without tokens                *)

MaxAuthClock == 2

AuthClients == {"c1", "c2"}

\* No token, the empty string, a token of this server that expires at 1, a
\* token signed with another key, and a signed token of another type.
AuthTokens ==
    {None,
     Some(Token(TRUE, FALSE, "", None)),
     Some(Token(FALSE, TRUE, WEBSOCKET_ACCESS, Some(1))),
     Some(Token(FALSE, FALSE, WEBSOCKET_ACCESS, Some(1))),
     Some(Token(FALSE, TRUE, "refresh", None))}

InitAuth == ComponentInit("web")

\* datetime.utcnow() moves on by a second.
AuthTick ==
    /\ now < MaxAuthClock
    /\ now' = now + 1
    /\ UNCHANGED <<monitor, components>>

\* websocket_auth.authenticate_client(client_id, token)
Authenticate ==
    /\ \E c \in AuthClients, token \in AuthTokens :
          auth' = authenticate_client(auth, c, token, now)
    /\ UNCHANGED <<now, monitor, limiter, cache, bus, manager, usage_cache, source>>

\* websocket_auth.revoke_client_auth(client_id)
Revoke ==
    /\ \E c \in AuthClients :
          auth' = revoke_client_auth(auth, c)
    /\ UNCHANGED <<now, monitor, limiter, cache, bus, manager, usage_cache, source>>

NextAuth ==
    \/ AuthTick
    \/ Authenticate
    \/ Revoke

SpecAuth == InitAuth /\ [][NextAuth]_vars

\* C34: a client has the write or the admin permission only if the last
\* authenticate_client call for it carried a token verify_token accepted,
\* and after a call that returned False it has no permission at all.
C34_PermissionOnlyByLastToken ==
    \A c \in AuthClients :
        /\ (has_permission(auth, c, "write") \/ has_permission(auth, c, "admin"))
              => (c \in DOMAIN auth.calls /\ auth.calls[c].accepted)
        /\ (c \in DOMAIN auth.calls /\ ~auth.calls[c].ret)
              => \A permission \in {"read", "write", "admin"} :
                     ~has_permission(auth, c, permission)

----------------------------------------------------------------------------
(* SpecSource: calls on one CachedDataSource over a source that now and    *)
(* then has nothing to return                                              *)

MaxSourceClock == 5

\* What the underlying source returns: None, an empty dict, or a dict with
\* an empty or a one-block list.
SourceData ==
    {None, Some([blocks |-> None]), Some([blocks |-> Some(<<>>)]),
     Some([blocks |-> Some(<<Block(Some(Utc(0)), None, None, 100, TRUE, FALSE)>>)])}

InitSource == ComponentInit("core")

\* datetime.now() moves on by a second.
SourceTick ==
    /\ now < MaxSourceClock
    /\ now' = now + 1
    /\ UNCHANGED <<monitor, components>>

\* cached_source.get_usage_data()
SourceGet ==
    /\ \E source_data \in SourceData :
          source' = source_get_usage_data(source, source_data, now)
    /\ UNCHANGED <<now, monitor, limiter, cache, bus, manager, usage_cache, auth>>

\* cached_source.clear_cache()
SourceClear ==
    /\ source' = clear_cache(source)
    /\ UNCHANGED <<now, monitor, limiter, cache, bus, manager, usage_cache, auth>>

NextSource ==
    \/ SourceTick
    \/ SourceGet
    \/ SourceClear

SpecSource == InitSource /\ [][NextSource]_vars

\* The last call was a get_usage_data made less than cache_duration_seconds
\* after the last fetch that returned data, the cache not cleared since.
FreshFetch ==
    /\ ~IsNone(source.last.fetched)
    /\ source.last.time - Val(source.last.fetched).time < source.cache_duration_seconds

====
